---- MODULE Spec2Model ----
(***************************************************************************)
(* Light meter: exposure solver, snapping to the standard scales and the   *)
(* controllers (the hook, the standalone view and the earlier revisions    *)
(* of the view) that drive it.                                             *)
(*                                                                         *)
(* Numbers.  The program computes with JavaScript numbers.  The model      *)
(* computes with exact non-negative rationals written n/d * 2^e (n, d odd  *)
(* and coprime), so that every comparison the code makes is decided        *)
(* exactly.  Two conventions keep irrational intermediate values exact:    *)
(*   - an exposure value EV is carried as its antilogarithm 2^EV           *)
(*     (Math.log2 and Math.pow(2, .) are inverse bijections, and the code  *)
(*     only ever uses an EV inside Math.pow(2, .));                        *)
(*   - the argument of Math.sqrt is carried as the radicand, and a         *)
(*     comparison of the root is made on squares.                          *)
(***************************************************************************)
EXTENDS Integers, Sequences, FiniteSets, TLC

VARIABLES
    variant,               \* the controller that runs: "hook" (useLightMeter),
                           \* "view" (standalone view), "watcher" (view with
                           \* watchers), "first" (first view), "hookView"
                           \* (hook-based view), "cycle" (standalone view step
                           \* by step); or the function applied by itself:
                           \* "sampler", "snap"
    typeFlag,              \* "aperture" | "shutter" (priority mode); "none" in
                           \* the views that have no modes
    aperture,              \* f-number, 0 = invalid
    shutterSpeed,          \* seconds, 0 = invalid
    iso,
    exposureCompensation,
    currentEV,             \* the hook's stored EV, as 2^EV
    isStreaming,           \* the camera delivers frames
    showApertureSelector, showShutterSelector, showIsoSelector, showEvSelector,
    pendingWatch,          \* queued watcher callbacks (revision with watchers)
    lastOp,                \* history: the handler that ran last
    sampled,               \* history: the last handler drew a video frame
    calculatedEV,          \* history: 2^EV of the last measurement
    frame,                 \* the pixel buffer handed to a luminance sampler
    frameLuminance,        \* its average luminance as the sampler computes it
    isMeasuring,           \* the view's flag of a measurement under way
    running,               \* where the handler on the call stack stands ("idle": none)
    inFlight,              \* history: measurement cycles begun and not finished
    radicand,              \* the square of the value handed to a snap function
                           \* that is applied by itself
    stream,                \* useCamera: the MediaStream held, NoStream = null
    tracks,                \* the streams acquired whose tracks were not stopped
    video,                 \* the template ref `video` is set (CameraPreview is
                           \* mounted)
    opened                 \* history: the device the last switchCamera opened
                           \* and the device that was active when it was called

vars == <<variant, typeFlag, aperture, shutterSpeed, iso, exposureCompensation,
          currentEV, isStreaming, showApertureSelector, showShutterSelector,
          showIsoSelector, showEvSelector, pendingWatch, lastOp, sampled,
          calculatedEV, frame, frameLuminance, isMeasuring, running, inFlight,
          radicand, stream, tracks, video, opened>>

\* a measurement cycle followed step by step
cycle == <<isMeasuring, running, inFlight>>

\* the buffer of a sampler that runs apart from the controllers, and the steps
\* of a cycle
camera == <<stream, tracks, video, opened>>

apart == <<frame, frameLuminance, cycle, radicand, camera>>

selectors == <<showApertureSelector, showShutterSelector, showIsoSelector,
               showEvSelector>>

-----------------------------------------------------------------------------
(* Exact arithmetic on n/d * 2^e                                             *)

RECURSIVE GCD(_, _)
GCD(a, b) == IF b = 0 THEN a ELSE GCD(b, a % b)

RECURSIVE TwoExp(_)
TwoExp(k) == IF k % 2 = 0 THEN 1 + TwoExp(k \div 2) ELSE 0

RECURSIVE OddPart(_)
OddPart(k) == IF k % 2 = 0 THEN OddPart(k \div 2) ELSE k

Zero == [n |-> 0, d |-> 1, e |-> 0]

Norm(n, d, e) ==
    IF n = 0 THEN Zero
    ELSE LET on == OddPart(n)
             od == OddPart(d)
             g  == GCD(on, od)
         IN [n |-> on \div g, d |-> od \div g, e |-> e + TwoExp(n) - TwoExp(d)]

Q(n, d) == Norm(n, d, 0)

Pow2(k) == [n |-> 1, d |-> 1, e |-> k]

\* the common factors are cancelled before the products are formed
Mul(x, y) ==
    IF x.n = 0 \/ y.n = 0 THEN Zero
    ELSE LET g1 == GCD(x.n, y.d)
             g2 == GCD(y.n, x.d)
         IN [n |-> (x.n \div g1) * (y.n \div g2),
             d |-> (x.d \div g2) * (y.d \div g1),
             e |-> x.e + y.e]

\* for y # 0
Div(x, y) == Mul(x, [n |-> y.d, d |-> y.n, e |-> 0 - y.e])

Sqr(x) == Mul(x, x)

\* floor(log2(m)) for m >= 1
RECURSIVE Lg(_)
Lg(m) == IF m < 2 THEN 0 ELSE 1 + Lg(m \div 2)

\* a/b < c/d on naturals (b, d > 0) by continued fractions: no product formed
RECURSIVE LessFrac(_, _, _, _)
LessFrac(a, b, c, d) ==
    IF a \div b # c \div d THEN a \div b < c \div d
    ELSE IF c % d = 0 THEN FALSE
    ELSE IF a % b = 0 THEN TRUE
    ELSE LessFrac(d, c % d, b, a % b)

\* 2^(h - 1) < x < 2^(h + 1) for h = Magnitude(x), x > 0
Magnitude(x) == Lg(x.n) - Lg(x.d) + x.e

\* x.n/x.d * 2^k < y.n/y.d for k >= 0 and the two sides within a factor 8
LessScaled(x, y, k) ==
    LET room == 29 - Lg(x.n)
        k1   == IF k < room THEN k ELSE room
    IN LessFrac(x.n * (2 ^ k1), x.d, y.n, y.d * (2 ^ (k - k1)))

\* x < y
Less(x, y) ==
    IF y.n = 0 THEN FALSE
    ELSE IF x.n = 0 THEN TRUE
    ELSE IF Magnitude(x) + 2 <= Magnitude(y) THEN TRUE
    ELSE IF Magnitude(y) + 2 <= Magnitude(x) THEN FALSE
    ELSE IF x.e >= y.e THEN LessScaled(x, y, x.e - y.e)
    ELSE LessFrac(x.n, x.d * (2 ^ (y.e - x.e - (IF y.e - x.e < 29 - Lg(y.n)
                                                   THEN y.e - x.e
                                                   ELSE 29 - Lg(y.n)))),
                  y.n * (2 ^ (IF y.e - x.e < 29 - Lg(y.n)
                              THEN y.e - x.e ELSE 29 - Lg(y.n))),
                  y.d)

Leq(x, y) == ~Less(y, x)

Add(x, y) ==
    IF x.n = 0 THEN y
    ELSE IF y.n = 0 THEN x
    ELSE LET m == IF x.e < y.e THEN x.e ELSE y.e
         IN Norm(x.n * y.d * (2 ^ (x.e - m)) + y.n * x.d * (2 ^ (y.e - m)),
                 x.d * y.d, m)

Max(x, y) == IF Less(x, y) THEN y ELSE x
Min(x, y) == IF Less(y, x) THEN y ELSE x

\* 2^|log2 a - log2 b| : the larger of a/b and b/a
Ratio(a, b) == Max(Div(a, b), Div(b, a))

Range(seq) == {seq[i] : i \in 1..Len(seq)}

\* no buffer was drawn: the controllers below take the average luminance of a
\* frame as their input
NoFrame == [width |-> 0, height |-> 0, data |-> <<>>]

\* no handler is on the call stack
NoCycle == isMeasuring = FALSE /\ running = "idle" /\ inFlight = 0

NoStream == [id |-> 0, device |-> 0]

\* no switchCamera has opened a device
NoSwitch == [was |-> 0, device |-> 0, streaming |-> FALSE]

\* useCamera is not part of the controller at hand
NoCamera == stream = NoStream /\ tracks = {} /\ video = FALSE /\ opened = NoSwitch

NoSampler ==
    frame = NoFrame /\ frameLuminance = Zero /\ NoCycle /\ radicand = Zero /\ NoCamera

-----------------------------------------------------------------------------
(* useLightMeter: tables, snapping, EV, solve                                *)

standardApertureValues ==
    << Q(10, 10), Q(14, 10), Q(20, 10), Q(28, 10), Q(40, 10), Q(56, 10),
       Q(80, 10), Q(110, 10), Q(160, 10), Q(220, 10) >>

standardShutterSpeeds ==
    << Q(1, 8000), Q(1, 4000), Q(1, 2000), Q(1, 1000), Q(1, 500), Q(1, 250),
       Q(1, 125), Q(1, 60), Q(1, 30), Q(1, 15), Q(1, 8), Q(1, 4), Q(1, 2),
       Q(1, 1), Q(2, 1), Q(4, 1), Q(8, 1), Q(15, 1), Q(30, 1) >>

minShutter == Q(1, 8000)
maxShutter == Q(30, 1)
minAperture == Q(1, 1)
\* a narrower aperture range (a variation the range properties must notice)
apertureCeiling16 == Q(16, 1)

maxAperture == Q(22, 1)

\* |log2(c) - log2(v)| < |log2(p) - log2(v)|
LogCloser(c, p, v) == Less(Ratio(c, v), Ratio(p, v))

\* |c - v| < |p - v| for rational v
LinCloser(c, p, v) ==
    IF c = p THEN FALSE
    ELSE IF Less(p, c) THEN Less(Add(c, p), Mul(Q(2, 1), v))
    ELSE Less(Mul(Q(2, 1), v), Add(c, p))

\* |c - sqrt(q)| < |p - sqrt(q)|, i.e. (c - p)(c + p) < 2 sqrt(q) (c - p)
LinCloserRoot(c, p, q) ==
    IF c = p THEN FALSE
    ELSE IF Less(p, c) THEN Less(Sqr(Add(c, p)), Mul(Q(4, 1), q))
    ELSE Less(Mul(Q(4, 1), q), Sqr(Add(c, p)))

\* |log2(c) - log2(sqrt(q))| < |log2(p) - log2(sqrt(q))|
LogCloserRoot(c, p, q) == Less(Ratio(Sqr(c), q), Ratio(Sqr(p), q))

\* the comparison of a reduce callback, by the distance it uses
Closer(distance, c, p, v) ==
    CASE distance = "log2" -> LogCloser(c, p, v)
      [] distance = "linear" -> LinCloser(c, p, v)
      [] distance = "log2 of root" -> LogCloserRoot(c, p, v)
      [] distance = "linear of root" -> LinCloserRoot(c, p, v)

\* a reduce whose callback keeps curr unless prev is closer (a variation the
\* property of ties must notice)
ReduceLatest(distance, seq, value) ==
    LET r[i \in 1..Len(seq)] ==
            IF i = 1 THEN seq[1]
            ELSE CHOOSE z \in {IF ~Closer(distance, prev, seq[i], value)
                                  THEN seq[i] ELSE prev : prev \in {r[i - 1]}} : TRUE
    IN r[Len(seq)]

\* seq.reduce((prev, curr) => closer(curr, prev, value) ? curr : prev):
\* Array.prototype.reduce without an initial value, a left fold from seq[1]
\* (the accumulator is bound through a singleton set so that it is a value
\* before the callback runs)
Reduce(distance, seq, value) ==
    LET r[i \in 1..Len(seq)] ==
            IF i = 1 THEN seq[1]
            ELSE CHOOSE z \in {IF Closer(distance, seq[i], prev, value)
                                  THEN seq[i] ELSE prev : prev \in {r[i - 1]}} : TRUE
    IN r[Len(seq)]

\* the nearest shutter speed by linear distance (a variation the snapping
\* properties must notice)
getStandardShutterSpeedLinear(value) == Reduce("linear", standardShutterSpeeds, value)

getStandardShutterSpeed(value) ==
    Reduce("log2", standardShutterSpeeds, value)

\* the argument is the square of the source's `value` (= the radicand of the
\* Math.sqrt that produced it)
getStandardApertureValue(valueSq) ==
    Reduce("linear of root", standardApertureValues, valueSq)

\* the shutter value without the square of the aperture (a variation the
\* worked example must notice)
hookShutterValueUnsquared(ev, comp, isoV, ap) ==
    Mul(Mul(Div(Pow2(comp), ev), Div(Q(100, 1), Q(isoV, 1))), ap)

\* Math.pow(2, -(ev - comp)) * (100 / iso) * Math.pow(aperture, 2)
hookShutterValue(ev, comp, isoV, ap) ==
    Mul(Mul(Div(Pow2(comp), ev), Div(Q(100, 1), Q(isoV, 1))), Sqr(ap))

\* the radicand of Math.sqrt(shutterSpeed * (100 / iso) * Math.pow(2, ev - comp))
hookCalculatedApertureSq(ev, comp, isoV, sh) ==
    Mul(Mul(sh, Div(Q(100, 1), Q(isoV, 1))), Div(ev, Pow2(comp)))

minLuminance == Q(1, 1000)
maxLuminance == Q(95, 100)

\* totalEV / samples, where every sample is the log2 of the same number y:
\* the mean is log2(y) again (carried as y)
MeanEV(seq) == CHOOSE y \in Range(seq) : \A i \in 1..Len(seq) : seq[i] = y

\* baseCalibrationFactor * deviceBrightnessCompensation = 1.2 * 1.0
hookCalibrationFactor == Mul(Q(12, 10), Q(1, 1))

hookDefaultSamples == 5

\* calculateEV with Math.max and Math.min exchanged in the clamp (a variation
\* the monotonicity property must notice)
calculateEVClampExchanged(luminance, samples) ==
    LET clampedLuminance == Min(minLuminance, Max(maxLuminance, luminance))
        singleMeasurement == Mul(Mul(clampedLuminance, Q(100, 1)), hookCalibrationFactor)
    IN MeanEV([i \in 1..samples |-> singleMeasurement])

\* calculateEV returning totalEV without the division by samples (a variation
\* the property of the sample count must notice): the sum of the logarithms,
\* carried as the product
calculateEVTotal(luminance, samples) ==
    LET clampedLuminance == Max(minLuminance, Min(maxLuminance, luminance))
        singleMeasurement == Mul(Mul(clampedLuminance, Q(100, 1)), hookCalibrationFactor)
        totalEV[i \in 0..samples] ==
            IF i = 0 THEN Q(1, 1) ELSE Mul(totalEV[i - 1], singleMeasurement)
    IN totalEV[samples]

\* 2^calculateEV(luminance, samples)
calculateEV(luminance, samples) ==
    LET clampedLuminance == Max(minLuminance, Min(maxLuminance, luminance))
        singleMeasurement == Mul(Mul(clampedLuminance, Q(100, 1)), hookCalibrationFactor)
    IN MeanEV([i \in 1..samples |-> singleMeasurement])

-----------------------------------------------------------------------------
(* Input sets                                                                *)

MaxEVIndex == 3
MaxIsoStop == 1
MaxComp == 1

\* 2^EV for EV = -5, 0, 5, 10, ...; the values that put the raw shutter of
\* f/1.0 at ISO 100 exactly on 30 s, on 1/8000 s and just outside; and the
\* values that give the raw shutter 1/61 s and the raw apertures 5.0 and 4.75
EVInputs ==
    {Pow2(5 * k - 5) : k \in 0..MaxEVIndex}
        \cup {Q(1, 30), Q(1, 31), Q(8000, 1), Q(8001, 1)}
        \cup {Q(61, 1), Q(25, 1), Q(361, 16)}

IsoValues == {100 * (2 ^ k) : k \in 0..MaxIsoStop}
CompValues == (0 - MaxComp)..MaxComp

\* average luminance of the frames the hook-based view measures (a black, a
\* grey (68, 68, 68) and a white centre crop), and what calculateEV makes of
\* them
hookViewLuminances == {Zero, Q(4, 15), Q(1, 1)}

hookViewEVs == {calculateEV(l, hookDefaultSamples) : l \in hookViewLuminances}

\* The snap functions tabulated over every raw value a solve of the model can
\* pass to them (a table is built once; the solve reads it)
hookShutterRaws ==
    {hookShutterValue(ev, c, i, a) :
        ev \in EVInputs \cup hookViewEVs, c \in CompValues, i \in IsoValues,
        a \in Range(standardApertureValues)}

hookApertureRaws ==
    {hookCalculatedApertureSq(ev, c, i, sh) :
        ev \in EVInputs \cup hookViewEVs, c \in CompValues, i \in IsoValues,
        sh \in Range(standardShutterSpeeds)}

\* the range without its bounds (a variation the boundary properties must notice)
InShutterRangeOpen(v) == Less(minShutter, v) /\ Less(v, maxShutter)

InShutterRange(v) == ~(Less(v, minShutter) \/ Less(maxShutter, v))
InApertureRangeSq(q) == ~(Less(q, Sqr(minAperture)) \/ Less(Sqr(maxAperture), q))

\* the shutter value stored as it was computed (a variation the property of
\* the stored table values must notice)
hookShutterUnsnapped ==
    [v \in {w \in hookShutterRaws : InShutterRange(w)} |-> v]

hookShutterSnap ==
    [v \in {w \in hookShutterRaws : InShutterRange(w)} |-> getStandardShutterSpeed(v)]

hookApertureSnap ==
    [q \in {w \in hookApertureRaws : InApertureRangeSq(w)} |->
        getStandardApertureValue(q)]

\* lines 79-106 for Number(iso.value) <= 0. With iso 0 the factor 100 / iso
\* is Infinity: the shutter value is Infinity (out of range), or NaN for the
\* aperture 0, and the aperture is Infinity (out of range). With iso < 0 the
\* shutter value is negative or -0 (out of range) and the aperture is the
\* root of a negative number, NaN. NaN passes both range tests (every
\* comparison with NaN is false) and the reduce of the snap function then
\* keeps its first element
hookSolveNonPositiveIso(tf, ap, sh, isoV) ==
    IF tf = "aperture"
    THEN [aperture |-> ap,
          shutterSpeed |->
              IF isoV = 0 /\ ap = Zero THEN standardShutterSpeeds[1] ELSE Zero]
    ELSE IF tf = "shutter" /\ Less(Zero, sh)
    THEN [aperture |-> IF isoV = 0 THEN Zero ELSE standardApertureValues[1],
          shutterSpeed |-> sh]
    ELSE [aperture |-> ap, shutterSpeed |-> sh]

\* a solve that clamps a value out of range to the end of the scale instead
\* of storing 0 (a variation the property of the absorbing state must notice)
hookSolveClamped(tf, ap, sh, isoV, comp, ev) ==
    IF tf = "aperture"
    THEN LET shutterValue == hookShutterValue(ev, comp, isoV, ap)
         IN [aperture |-> ap,
             shutterSpeed |->
                 IF Less(shutterValue, minShutter) THEN minShutter
                 ELSE IF Less(maxShutter, shutterValue) THEN maxShutter
                 ELSE hookShutterSnap[shutterValue]]
    ELSE IF tf = "shutter" /\ Less(Zero, sh)
    THEN LET calculatedApertureSq == hookCalculatedApertureSq(ev, comp, isoV, sh)
         IN [aperture |->
                 IF Less(calculatedApertureSq, Sqr(minAperture)) THEN minAperture
                 ELSE IF Less(Sqr(maxAperture), calculatedApertureSq) THEN maxAperture
                 ELSE hookApertureSnap[calculatedApertureSq],
             shutterSpeed |-> sh]
    ELSE [aperture |-> ap, shutterSpeed |-> sh]

\* lines 79-106: the driven parameter solved from the held one
hookSolve(tf, ap, sh, isoV, comp, ev) ==
    IF isoV <= 0
    THEN hookSolveNonPositiveIso(tf, ap, sh, isoV)
    ELSE IF tf = "aperture"
    THEN LET shutterValue == hookShutterValue(ev, comp, isoV, ap)
         IN [aperture |-> ap,
             shutterSpeed |->
                 IF ~InShutterRange(shutterValue)
                 THEN Zero
                 ELSE hookShutterSnap[shutterValue]]
    ELSE IF tf = "shutter" /\ Less(Zero, sh)
    THEN LET calculatedApertureSq == hookCalculatedApertureSq(ev, comp, isoV, sh)
         IN [aperture |->
                 IF ~InApertureRangeSq(calculatedApertureSq)
                 THEN Zero
                 ELSE hookApertureSnap[calculatedApertureSq],
             shutterSpeed |-> sh]
    ELSE [aperture |-> ap, shutterSpeed |-> sh]

updateExposureParams(ev) ==
    LET r == hookSolve(typeFlag, aperture, shutterSpeed, iso, exposureCompensation, ev)
    IN /\ currentEV' = ev
       /\ aperture' = r.aperture
       /\ shutterSpeed' = r.shutterSpeed
       /\ UNCHANGED <<typeFlag, iso, exposureCompensation>>

toggleMeteringMode ==
    /\ typeFlag' = IF typeFlag = "aperture" THEN "shutter" ELSE "aperture"
    /\ UNCHANGED <<aperture, shutterSpeed, iso, exposureCompensation, currentEV>>

-----------------------------------------------------------------------------
(* The hook by itself: its functions and its exported refs                   *)

restOfView == <<isStreaming, showApertureSelector, showShutterSelector,
                showIsoSelector, showEvSelector, pendingWatch, apart>>

HookUpdateExposureParams ==
    /\ variant = "hook"
    /\ \E ev \in EVInputs : updateExposureParams(ev)
    /\ lastOp' = "updateExposureParams"
    /\ sampled' = FALSE
    /\ calculatedEV' = currentEV'
    /\ UNCHANGED <<variant, restOfView>>

HookToggleMeteringMode ==
    /\ variant = "hook"
    /\ toggleMeteringMode
    /\ lastOp' = "toggleMeteringMode"
    /\ sampled' = FALSE
    /\ UNCHANGED <<variant, restOfView, calculatedEV>>

HookAssignAperture ==
    /\ variant = "hook"
    /\ \E v \in Range(standardApertureValues) : aperture' = v
    /\ lastOp' = "assign"
    /\ sampled' = FALSE
    /\ UNCHANGED <<variant, restOfView, calculatedEV, typeFlag, shutterSpeed, iso,
                   exposureCompensation, currentEV>>

HookAssignShutterSpeed ==
    /\ variant = "hook"
    /\ \E v \in Range(standardShutterSpeeds) : shutterSpeed' = v
    /\ lastOp' = "assign"
    /\ sampled' = FALSE
    /\ UNCHANGED <<variant, restOfView, calculatedEV, typeFlag, aperture, iso,
                   exposureCompensation, currentEV>>

HookAssignIso ==
    /\ variant = "hook"
    /\ \E v \in IsoValues : iso' = v
    /\ lastOp' = "assign"
    /\ sampled' = FALSE
    /\ UNCHANGED <<variant, restOfView, calculatedEV, typeFlag, aperture, shutterSpeed,
                   exposureCompensation, currentEV>>

HookAssignExposureCompensation ==
    /\ variant = "hook"
    /\ \E v \in CompValues : exposureCompensation' = v
    /\ lastOp' = "assign"
    /\ sampled' = FALSE
    /\ UNCHANGED <<variant, restOfView, calculatedEV, typeFlag, aperture, shutterSpeed,
                   iso, currentEV>>

InitHook ==
    /\ variant = "hook"
    /\ currentEV = Pow2(0)
    /\ aperture = Zero
    /\ shutterSpeed = Zero
    /\ iso = 100
    /\ exposureCompensation = 0
    /\ typeFlag = "aperture"
    /\ isStreaming = FALSE
    /\ showApertureSelector = FALSE
    /\ showShutterSelector = FALSE
    /\ showIsoSelector = FALSE
    /\ showEvSelector = FALSE
    /\ pendingWatch = {}
    /\ lastOp = "init"
    /\ sampled = FALSE
    /\ calculatedEV = Pow2(0)
    /\ NoSampler

NextHook ==
    \/ HookUpdateExposureParams
    \/ HookToggleMeteringMode
    \/ HookAssignAperture
    \/ HookAssignShutterSpeed
    \/ HookAssignIso
    \/ HookAssignExposureCompensation

SpecHook == InitHook /\ [][NextHook]_vars

-----------------------------------------------------------------------------
(* The standalone view: its own tables, snapping, measurement and handlers   *)

apertureValues ==
    << Q(10, 10), Q(12, 10), Q(14, 10), Q(18, 10), Q(2, 1), Q(28, 10), Q(4, 1),
       Q(56, 10), Q(8, 1), Q(11, 1), Q(16, 1), Q(22, 1) >>

viewGetStandardShutterSpeed(shutterValue) ==
    Reduce("log2", standardShutterSpeeds, shutterValue)

\* getStandardAperture reading the table of the hook
getStandardApertureOfHookTable(apertureValueSq) ==
    Reduce("log2 of root", standardApertureValues, apertureValueSq)

\* the argument is the square of the source's `apertureValue`
getStandardAperture(apertureValueSq) ==
    Reduce("log2 of root", apertureValues, apertureValueSq)

\* baseCalibrationFactor * deviceBrightnessCompensation = 12.5 * 1.2
viewCalibrationFactor == Mul(Q(125, 10), Q(12, 10))

viewSamples == 10

\* lines 148-169: 2^calculatedEV from the average luminance of the frame
viewCalculatedEV(averageLuminance) ==
    LET clampedLuminance == Max(minLuminance, Min(maxLuminance, averageLuminance))
        singleMeasurement == Mul(Mul(clampedLuminance, Q(100, 1)), viewCalibrationFactor)
    IN MeanEV([i \in 1..viewSamples |-> singleMeasurement])

\* the integer stops of the compensation slider (min -3, max 3, step 0.3)
sliderStops == {0 - 3, 0, 3}

\* average luminance of a frame: black, white, and the values measured as
\* 2^EV = 32/15, 61, 1000 and 1024 (2^EV = luminance * 100 * 15)
viewLuminances ==
    {Div(x, Q(1500, 1)) : x \in {Q(32, 15), Q(61, 1), Q(1000, 1), Pow2(10)}}
        \cup {Zero, Q(1, 1)}

viewShutterValue(ev, comp, isoV, ap) ==
    Mul(Mul(Div(Pow2(comp), ev), Div(Q(100, 1), Q(isoV, 1))), Sqr(ap))

viewCalculatedApertureSq(ev, comp, isoV, sh) ==
    Mul(Mul(sh, Div(Q(100, 1), Q(isoV, 1))), Div(ev, Pow2(comp)))

\* the measurement of each frame, evaluated once
viewEVOf == [l \in viewLuminances |-> viewCalculatedEV(l)]

viewEVs == {viewEVOf[l] : l \in viewLuminances}

\* lines 173-183: the shutter speed of aperture priority
viewShutterSpeedFor(ev, comp, isoV, ap) ==
    LET shutterValue == viewShutterValue(ev, comp, isoV, ap)
    IN IF Less(shutterValue, minShutter) \/ Less(maxShutter, shutterValue)
       THEN Zero
       ELSE viewGetStandardShutterSpeed(shutterValue)

\* lines 186-197: the aperture of shutter priority
viewApertureFor(ev, comp, isoV, sh) ==
    LET calculatedApertureSq == viewCalculatedApertureSq(ev, comp, isoV, sh)
    IN IF \/ Less(calculatedApertureSq, Sqr(minAperture))
          \/ Less(Sqr(maxAperture), calculatedApertureSq)
       THEN Zero
       ELSE getStandardAperture(calculatedApertureSq)

\* both, evaluated once for every value the refs can hold
viewShutterSnap ==
    [ev \in viewEVs, c \in sliderStops, i \in IsoValues,
     a \in Range(apertureValues) \cup {Zero} |-> viewShutterSpeedFor(ev, c, i, a)]

viewApertureSnap ==
    [ev \in viewEVs, c \in sliderStops, i \in IsoValues,
     sh \in Range(standardShutterSpeeds) |-> viewApertureFor(ev, c, i, sh)]

\* lines 171-198
viewSolve(tf, ap, sh, isoV, comp, ev) ==
    IF tf = "aperture"
    THEN [aperture |-> ap, shutterSpeed |-> viewShutterSnap[ev, comp, isoV, ap]]
    ELSE IF tf = "shutter" /\ Less(Zero, sh)
    THEN [aperture |-> viewApertureSnap[ev, comp, isoV, sh], shutterSpeed |-> sh]
    ELSE [aperture |-> ap, shutterSpeed |-> sh]

\* analyzeBrightness() entered with the given values of the refs and popup
\* flags (a handler that has just assigned some of them passes the new values).
\* `op` is recorded as the handler that ran.
analyzeBrightness(op, tf, ap, sh, isoV, comp, sel) ==
    /\ typeFlag' = tf
    /\ iso' = isoV
    /\ exposureCompensation' = comp
    /\ lastOp' = op
    /\ IF ~isStreaming
       THEN /\ aperture' = ap
            /\ shutterSpeed' = sh
            /\ showApertureSelector' = sel[1]
            /\ showShutterSelector' = sel[2]
            /\ showIsoSelector' = sel[3]
            /\ showEvSelector' = sel[4]
            /\ sampled' = FALSE
            /\ UNCHANGED calculatedEV
       ELSE \E lum \in viewLuminances :
               LET ev == viewEVOf[lum]
                   r  == viewSolve(tf, ap, sh, isoV, comp, ev)
               IN /\ showEvSelector' = FALSE
                  /\ showIsoSelector' = FALSE
                  /\ showShutterSelector' = FALSE
                  /\ showApertureSelector' = FALSE
                  /\ aperture' = r.aperture
                  /\ shutterSpeed' = r.shutterSpeed
                  /\ sampled' = TRUE
                  /\ calculatedEV' = ev

\* 2^currentEV of the standalone view, the computed of lines 53-59:
\* 2^(apertureEV + speedEV - isoEV - comp) = ap^2 * (1 / sh) / (isoV / 100) / 2^comp,
\* formed as one fraction
viewCurrentEV(ap, sh, isoV, comp) ==
    IF sh = Zero THEN Pow2(0)
    ELSE Norm(ap.n * ap.n * sh.d * 100, ap.d * ap.d * sh.n * isoV,
              2 * ap.e - sh.e - comp)

viewFixed == <<variant, currentEV, pendingWatch, apart>>

\* startCamera: getUserMedia resolved and the video plays
ViewStartCamera ==
    /\ variant = "view"
    /\ ~isStreaming
    /\ isStreaming' = TRUE
    /\ lastOp' = "startCamera"
    /\ sampled' = FALSE
    /\ UNCHANGED <<viewFixed, typeFlag, aperture, shutterSpeed, iso,
                   exposureCompensation, selectors, calculatedEV>>

\* the measure button (shown while streaming) and the 1000 ms timer of startCamera
ViewMeasure ==
    /\ variant = "view"
    /\ isStreaming
    /\ analyzeBrightness("analyzeBrightness", typeFlag, aperture, shutterSpeed, iso,
                         exposureCompensation, selectors)
    /\ UNCHANGED <<viewFixed, isStreaming>>

\* the 300 ms timer of an orientation change
ViewOrientationChange ==
    /\ variant = "view"
    /\ IF Less(Zero, shutterSpeed)
       THEN analyzeBrightness("orientationchange", typeFlag, aperture, shutterSpeed,
                              iso, exposureCompensation, selectors)
       ELSE /\ lastOp' = "orientationchange"
            /\ sampled' = FALSE
            /\ UNCHANGED <<typeFlag, aperture, shutterSpeed, iso, exposureCompensation,
                           selectors, calculatedEV>>
    /\ UNCHANGED <<viewFixed, isStreaming>>

ViewToggleMeteringMode ==
    /\ variant = "view"
    /\ LET tf == IF typeFlag = "aperture" THEN "shutter" ELSE "aperture"
       IN IF Less(Zero, shutterSpeed)
          THEN analyzeBrightness("toggleMeteringMode", tf, aperture, shutterSpeed, iso,
                                 exposureCompensation, selectors)
          ELSE /\ typeFlag' = tf
               /\ lastOp' = "toggleMeteringMode"
               /\ sampled' = FALSE
               /\ UNCHANGED <<aperture, shutterSpeed, iso, exposureCompensation,
                              selectors, calculatedEV>>
    /\ UNCHANGED <<viewFixed, isStreaming>>

clickFixed == <<viewFixed, isStreaming, typeFlag, aperture, shutterSpeed, iso,
                exposureCompensation, calculatedEV>>

handleApertureClick ==
    /\ variant = "view"
    /\ showApertureSelector' = ~showApertureSelector
    /\ showShutterSelector' = FALSE
    /\ showIsoSelector' = FALSE
    /\ showEvSelector' = FALSE
    /\ lastOp' = "click"
    /\ sampled' = FALSE
    /\ UNCHANGED clickFixed

handleShutterClick ==
    /\ variant = "view"
    /\ showShutterSelector' = ~showShutterSelector
    /\ showApertureSelector' = FALSE
    /\ showIsoSelector' = FALSE
    /\ showEvSelector' = FALSE
    /\ lastOp' = "click"
    /\ sampled' = FALSE
    /\ UNCHANGED clickFixed

handleIsoClick ==
    /\ variant = "view"
    /\ showIsoSelector' = ~showIsoSelector
    /\ showApertureSelector' = FALSE
    /\ showShutterSelector' = FALSE
    /\ showEvSelector' = FALSE
    /\ lastOp' = "click"
    /\ sampled' = FALSE
    /\ UNCHANGED clickFixed

\* a click on the compensation field that leaves the other popups as they
\* are (a variation the property of the single popup must notice)
handleEvClickOnly ==
    /\ variant = "view"
    /\ showEvSelector' = ~showEvSelector
    /\ lastOp' = "click"
    /\ sampled' = FALSE
    /\ UNCHANGED <<clickFixed, showApertureSelector, showShutterSelector,
                   showIsoSelector>>

handleEvClick ==
    /\ variant = "view"
    /\ showEvSelector' = ~showEvSelector
    /\ showApertureSelector' = FALSE
    /\ showShutterSelector' = FALSE
    /\ showIsoSelector' = FALSE
    /\ lastOp' = "click"
    /\ sampled' = FALSE
    /\ UNCHANGED clickFixed

\* the close button of a popup
ViewClosePopup ==
    /\ variant = "view"
    /\ \/ showApertureSelector /\ showApertureSelector' = FALSE
          /\ UNCHANGED <<showShutterSelector, showIsoSelector, showEvSelector>>
       \/ showShutterSelector /\ showShutterSelector' = FALSE
          /\ UNCHANGED <<showApertureSelector, showIsoSelector, showEvSelector>>
       \/ showIsoSelector /\ showIsoSelector' = FALSE
          /\ UNCHANGED <<showApertureSelector, showShutterSelector, showEvSelector>>
       \/ showEvSelector /\ showEvSelector' = FALSE
          /\ UNCHANGED <<showApertureSelector, showShutterSelector, showIsoSelector>>
    /\ lastOp' = "click"
    /\ sampled' = FALSE
    /\ UNCHANGED clickFixed

\* the shutter speeds picked in the popup (of the 19 it offers)
heldShutterChoices == {standardShutterSpeeds[i] : i \in {1, 8, 10, 14, 19}}

handleApertureSelect ==
    /\ variant = "view"
    /\ showApertureSelector
    /\ \E value \in Range(apertureValues) :
          analyzeBrightness("handleApertureSelect", "aperture", value, shutterSpeed, iso,
                            exposureCompensation,
                            <<FALSE, showShutterSelector, showIsoSelector,
                              showEvSelector>>)
    /\ UNCHANGED <<viewFixed, isStreaming>>

handleShutterSelect ==
    /\ variant = "view"
    /\ showShutterSelector
    /\ \E speed \in heldShutterChoices :
          analyzeBrightness("handleShutterSelect", "shutter", aperture, speed, iso,
                            exposureCompensation,
                            <<showApertureSelector, FALSE, showIsoSelector,
                              showEvSelector>>)
    /\ UNCHANGED <<viewFixed, isStreaming>>

\* handleIsoSelect, then the watcher of [iso, exposureCompensation] when the
\* value changed
handleIsoSelect ==
    /\ variant = "view"
    /\ showIsoSelector
    /\ \E value \in IsoValues :
          IF value # iso /\ Less(Zero, shutterSpeed)
          THEN analyzeBrightness("handleIsoSelect", typeFlag, aperture, shutterSpeed,
                                 value, exposureCompensation,
                                 <<showApertureSelector, showShutterSelector, FALSE,
                                   showEvSelector>>)
          ELSE /\ iso' = value
               /\ showIsoSelector' = FALSE
               /\ lastOp' = "handleIsoSelect"
               /\ sampled' = FALSE
               /\ UNCHANGED <<typeFlag, aperture, shutterSpeed, exposureCompensation,
                              showApertureSelector, showShutterSelector, showEvSelector,
                              calculatedEV>>
    /\ UNCHANGED <<viewFixed, isStreaming>>

\* the compensation slider (v-model), then the same watcher
ViewSlideCompensation ==
    /\ variant = "view"
    /\ showEvSelector
    /\ \E value \in sliderStops :
          IF value # exposureCompensation /\ Less(Zero, shutterSpeed)
          THEN analyzeBrightness("exposureCompensation", typeFlag, aperture,
                                 shutterSpeed, iso, value, selectors)
          ELSE /\ exposureCompensation' = value
               /\ lastOp' = "exposureCompensation"
               /\ sampled' = FALSE
               /\ UNCHANGED <<typeFlag, aperture, shutterSpeed, iso, selectors,
                              calculatedEV>>
    /\ UNCHANGED <<viewFixed, isStreaming>>

InitView ==
    /\ variant = "view"
    /\ currentEV = Pow2(0)
    /\ aperture = Q(14, 10)
    /\ shutterSpeed = Zero
    /\ iso = 100
    /\ exposureCompensation = 0
    /\ typeFlag = "aperture"
    /\ isStreaming = FALSE
    /\ showApertureSelector = FALSE
    /\ showShutterSelector = FALSE
    /\ showIsoSelector = FALSE
    /\ showEvSelector = FALSE
    /\ pendingWatch = {}
    /\ lastOp = "init"
    /\ sampled = FALSE
    /\ calculatedEV = Pow2(0)
    /\ NoSampler

NextView ==
    \/ ViewStartCamera
    \/ ViewMeasure
    \/ ViewOrientationChange
    \/ ViewToggleMeteringMode
    \/ handleApertureClick
    \/ handleShutterClick
    \/ handleIsoClick
    \/ handleEvClick
    \/ ViewClosePopup
    \/ handleApertureSelect
    \/ handleShutterSelect
    \/ handleIsoSelect
    \/ ViewSlideCompensation

SpecView == InitView /\ [][NextView]_vars

-----------------------------------------------------------------------------
(* The view with watchers: measurement with a clamped shutter, and the        *)
(* watchers of aperture, shutterSpeed and iso. The compensation keeps its     *)
(* initial value 0 here.                                                      *)

\* n / d with n, d integers, of a value whose binary exponent is small
Numer(x) == x.n * (2 ^ (IF x.e > 0 THEN x.e ELSE 0))
Denom(x) == x.d * (2 ^ (IF x.e < 0 THEN 0 - x.e ELSE 0))

\* Math.ceil and Math.round of a positive value
Ceil(x) == Q((Numer(x) + Denom(x) - 1) \div Denom(x), 1)
Round(x) == Q((2 * Numer(x) + Denom(x)) \div (2 * Denom(x)), 1)

watcherApertureValues ==
    << Q(14, 10), Q(18, 10), Q(2, 1), Q(28, 10), Q(4, 1), Q(8, 1), Q(16, 1),
       Q(22, 1) >>

standardDenominators ==
    << Q(8000, 1), Q(4000, 1), Q(2000, 1), Q(1000, 1), Q(500, 1), Q(250, 1),
       Q(125, 1), Q(60, 1), Q(30, 1), Q(15, 1), Q(8, 1), Q(4, 1), Q(2, 1) >>

\* average brightness of a frame (0..255): black, 51, middle grey, white
watcherBrightness == {Zero, Q(51, 1), Q(255, 2), Q(255, 1)}

\* 2^ev of a frame: normalizedBrightness / 127.5
watcherEV(avgBrightness) ==
    LET normalizedBrightness == Max(Q(1, 1), Min(Q(255, 1), avgBrightness))
    IN Div(normalizedBrightness, Q(255, 2))

\* lines 228-232: 1 / ((aperture^2 / (iso / 100)) * 2^(ev + comp))
watcherCalculatedSpeed(ev, comp, isoV, ap) ==
    Div(Q(1, 1), Mul(Div(Sqr(ap), Q(isoV, 100)), Mul(ev, Pow2(comp))))

\* lines 226-245: the shutter speed a measurement stores
watcherShutterSpeed(ev, comp, isoV, ap) ==
    LET calculatedSpeed == watcherCalculatedSpeed(ev, comp, isoV, ap)
        limitedSpeed == Max(minShutter, Min(maxShutter, calculatedSpeed))
    IN IF Less(limitedSpeed, Q(1, 1))
       THEN LET denominator == Ceil(Div(Q(1, 1), limitedSpeed))
            IN Div(Q(1, 1), Reduce("linear", standardDenominators, denominator))
       ELSE Round(limitedSpeed)

\* 2^currentEV (the computed of lines 21-27)
watcherCurrentEV(ap, sh, isoV, comp) ==
    IF sh = Zero THEN Pow2(0)
    ELSE Div(Div(Mul(Sqr(ap), Div(Q(1, 1), sh)), Q(isoV, 100)), Pow2(comp))

\* lines 30-38: the shutter speed the watcher of aperture stores. With
\* 2^ev = newAperture^2 / (shutterSpeed * isoFactor * 2^comp), newSpeed
\* = 1 / (2^(ev + log2(newAperture^2) + comp) * isoFactor) is
\* shutterSpeed / newAperture^4; a shutter speed under newAperture^2 / 8000
\* gives a quotient under 1/8000 after the first division by newAperture^2
\* (> 1) and is clamped without forming the quotient
watchApertureSpeed(newAperture, sh, isoV, comp) ==
    IF Less(sh, Mul(Sqr(newAperture), minShutter)) THEN minShutter
    ELSE LET newSpeed == Div(Div(sh, Sqr(newAperture)), Sqr(newAperture))
         IN Max(minShutter, Min(maxShutter, newSpeed))

\* lines 41-54: the aperture the watcher of shutterSpeed finds closest. With
\* 2^ev = aperture^2 / (newSpeed * isoFactor * 2^comp) the radicand
\* 2^(ev + log2(1 / newSpeed) + comp) * isoFactor is (aperture / newSpeed)^2;
\* its root is formed directly
watchShutterAperture(ap, newSpeed, isoV, comp) ==
    LET newAperture == Div(ap, newSpeed)
    IN Reduce("linear", watcherApertureValues, newAperture)

\* the queued watcher jobs run in the order the watchers were created
watcherId(w) ==
    CASE w = "aperture" -> 1 [] w = "shutterSpeed" -> 2 [] w = "iso" -> 3

NextWatcher(w) == w \in pendingWatch /\ \A o \in pendingWatch : watcherId(w) <= watcherId(o)

\* a job is queued when its ref got another value
Queued(pending, w, old, new) == IF old = new THEN pending ELSE pending \cup {w}

watcherFixed == <<variant, typeFlag, currentEV, selectors, apart>>

\* analyzeBrightness() of lines 190-248 from the given pending jobs
watcherAnalyzeBrightness(op, pending) ==
    /\ lastOp' = op
    /\ UNCHANGED <<aperture, iso, exposureCompensation>>
    /\ IF ~isStreaming
       THEN /\ pendingWatch' = pending
            /\ sampled' = FALSE
            /\ UNCHANGED <<shutterSpeed, calculatedEV>>
       ELSE \E b \in watcherBrightness :
               LET ev == watcherEV(b)
                   sp == watcherShutterSpeed(ev, exposureCompensation, iso, aperture)
               IN /\ shutterSpeed' = sp
                  /\ pendingWatch' = Queued(pending, "shutterSpeed", shutterSpeed, sp)
                  /\ sampled' = TRUE
                  /\ calculatedEV' = ev

\* onloadedmetadata of startCamera
WatcherStartCamera ==
    /\ variant = "watcher"
    /\ pendingWatch = {}
    /\ ~isStreaming
    /\ isStreaming' = TRUE
    /\ lastOp' = "startCamera"
    /\ sampled' = FALSE
    /\ UNCHANGED <<watcherFixed, aperture, shutterSpeed, iso, exposureCompensation,
                   pendingWatch, calculatedEV>>

\* the measure button and the 1000 ms timer of startCamera
WatcherMeasure ==
    /\ variant = "watcher"
    /\ pendingWatch = {}
    /\ watcherAnalyzeBrightness("analyzeBrightness", {})
    /\ UNCHANGED <<watcherFixed, isStreaming>>

\* @click="aperture = value" (the aperture is picked before the first
\* measurement or while the shutter speed is under a second, which keeps
\* the numbers of the watchers small)
WatcherSelectAperture ==
    /\ variant = "watcher"
    /\ pendingWatch = {}
    /\ Less(shutterSpeed, Q(1, 1))
    /\ \E value \in Range(watcherApertureValues) :
          /\ aperture' = value
          /\ pendingWatch' = Queued({}, "aperture", aperture, value)
    /\ lastOp' = "aperture"
    /\ sampled' = FALSE
    /\ UNCHANGED <<watcherFixed, isStreaming, shutterSpeed, iso, exposureCompensation,
                   calculatedEV>>

\* @click="iso = value"
WatcherSelectIso ==
    /\ variant = "watcher"
    /\ pendingWatch = {}
    /\ \E value \in IsoValues :
          /\ iso' = value
          /\ pendingWatch' = Queued({}, "iso", iso, value)
    /\ lastOp' = "iso"
    /\ sampled' = FALSE
    /\ UNCHANGED <<watcherFixed, isStreaming, aperture, shutterSpeed,
                   exposureCompensation, calculatedEV>>

\* watch(aperture, ...)
WatchAperture ==
    /\ variant = "watcher"
    /\ NextWatcher("aperture")
    /\ LET sp == IF shutterSpeed = Zero THEN shutterSpeed
                 ELSE watchApertureSpeed(aperture, shutterSpeed, iso,
                                         exposureCompensation)
       IN /\ shutterSpeed' = sp
          /\ pendingWatch' =
                Queued(pendingWatch \ {"aperture"}, "shutterSpeed", shutterSpeed, sp)
    /\ lastOp' = "watch(aperture)"
    /\ sampled' = FALSE
    /\ UNCHANGED <<watcherFixed, isStreaming, aperture, iso, exposureCompensation,
                   calculatedEV>>

\* watch(shutterSpeed, ...)
WatchShutterSpeed ==
    /\ variant = "watcher"
    /\ NextWatcher("shutterSpeed")
    /\ LET ap == IF shutterSpeed = Zero THEN aperture
                 ELSE watchShutterAperture(aperture, shutterSpeed, iso,
                                           exposureCompensation)
       IN /\ aperture' = ap
          /\ pendingWatch' =
                Queued(pendingWatch \ {"shutterSpeed"}, "aperture", aperture, ap)
    /\ lastOp' = "watch(shutterSpeed)"
    /\ sampled' = FALSE
    /\ UNCHANGED <<watcherFixed, isStreaming, shutterSpeed, iso, exposureCompensation,
                   calculatedEV>>

\* watch(iso, ...)
WatchIso ==
    /\ variant = "watcher"
    /\ NextWatcher("iso")
    /\ IF Less(Zero, shutterSpeed)
       THEN watcherAnalyzeBrightness("watch(iso)", pendingWatch \ {"iso"})
       ELSE /\ pendingWatch' = pendingWatch \ {"iso"}
            /\ lastOp' = "watch(iso)"
            /\ sampled' = FALSE
            /\ UNCHANGED <<aperture, shutterSpeed, iso, exposureCompensation,
                           calculatedEV>>
    /\ UNCHANGED <<watcherFixed, isStreaming>>

InitWatcher ==
    /\ variant = "watcher"
    /\ typeFlag = "none"
    /\ currentEV = Pow2(0)
    /\ aperture = Q(14, 10)
    /\ shutterSpeed = Zero
    /\ iso = 100
    /\ exposureCompensation = 0
    /\ isStreaming = FALSE
    /\ showApertureSelector = FALSE
    /\ showShutterSelector = FALSE
    /\ showIsoSelector = FALSE
    /\ showEvSelector = FALSE
    /\ pendingWatch = {}
    /\ lastOp = "init"
    /\ sampled = FALSE
    /\ calculatedEV = Pow2(0)
    /\ NoSampler

NextWatcherView ==
    \/ WatcherStartCamera
    \/ WatcherMeasure
    \/ WatcherSelectAperture
    \/ WatcherSelectIso
    \/ WatchAperture
    \/ WatchShutterSpeed
    \/ WatchIso

SpecWatcher == InitWatcher /\ [][NextWatcherView]_vars

-----------------------------------------------------------------------------
(* The first view: no modes, every measurement stores an aperture and a      *)
(* shutter value                                                             *)

\* Number(Math.sqrt(q).toFixed(1)) for 1.4 <= sqrt(q) <= 22: k / 10 with
\* k - 1/2 <= 10 sqrt(q) < k + 1/2
ToFixed1OfRoot(q) ==
    LET k == CHOOSE j \in 14..220 :
                 /\ Leq(Q((2 * j - 1) * (2 * j - 1), 1), Mul(Q(400, 1), q))
                 /\ Less(Mul(Q(400, 1), q), Q((2 * j + 1) * (2 * j + 1), 1))
    IN Q(k, 10)

\* lines 76-78: 2^evWithComp
firstEVWithComp(avgBrightness, comp) == Mul(watcherEV(avgBrightness), Pow2(comp))

\* lines 81-83
firstAperture(evWithComp) ==
    LET baseApertureSq == Sqr(Q(56, 10))
        calculatedApertureSq == Mul(baseApertureSq, evWithComp)
    IN ToFixed1OfRoot(Max(Sqr(Q(14, 10)), Min(Sqr(Q(22, 1)), calculatedApertureSq)))

\* lines 86-89 (a speed under 1 s is stored as its denominator)
firstShutterSpeed(evWithComp, isoV) ==
    LET calculatedSpeed == Mul(Div(Q(1, 1), Q(isoV, 100)), Div(Q(1, 1), evWithComp))
        limitedSpeed == Max(minShutter, Min(maxShutter, calculatedSpeed))
    IN IF Leq(Q(1, 1), limitedSpeed) THEN limitedSpeed
       ELSE Round(Div(Q(1, 1), limitedSpeed))

\* both, evaluated once for every frame, compensation and ISO
firstReadings ==
    [b \in watcherBrightness, c \in sliderStops, i \in IsoValues |->
        [aperture |-> firstAperture(firstEVWithComp(b, c)),
         shutterSpeed |-> firstShutterSpeed(firstEVWithComp(b, c), i)]]

firstFixed == <<variant, typeFlag, currentEV, selectors, pendingWatch, apart>>

\* startCamera (onMounted)
FirstStartCamera ==
    /\ variant = "first"
    /\ ~isStreaming
    /\ isStreaming' = TRUE
    /\ lastOp' = "startCamera"
    /\ sampled' = FALSE
    /\ UNCHANGED <<firstFixed, aperture, shutterSpeed, iso, exposureCompensation,
                   calculatedEV>>

\* a tick of setInterval(analyzeBrightness, 500) while the camera streams
FirstAnalyzeBrightness ==
    /\ variant = "first"
    /\ isStreaming
    /\ \E b \in watcherBrightness :
          /\ aperture' = firstReadings[b, exposureCompensation, iso].aperture
          /\ shutterSpeed' = firstReadings[b, exposureCompensation, iso].shutterSpeed
          /\ calculatedEV' = watcherEV(b)
    /\ lastOp' = "analyzeBrightness"
    /\ sampled' = TRUE
    /\ UNCHANGED <<firstFixed, isStreaming, iso, exposureCompensation>>

\* <select v-model="iso">
FirstSelectIso ==
    /\ variant = "first"
    /\ \E value \in IsoValues : iso' = value
    /\ lastOp' = "iso"
    /\ sampled' = FALSE
    /\ UNCHANGED <<firstFixed, isStreaming, aperture, shutterSpeed,
                   exposureCompensation, calculatedEV>>

\* <input type="range" v-model="exposureCompensation">
FirstSlideCompensation ==
    /\ variant = "first"
    /\ \E value \in sliderStops : exposureCompensation' = value
    /\ lastOp' = "exposureCompensation"
    /\ sampled' = FALSE
    /\ UNCHANGED <<firstFixed, isStreaming, aperture, shutterSpeed, iso,
                   calculatedEV>>

InitFirst ==
    /\ variant = "first"
    /\ typeFlag = "none"
    /\ currentEV = Pow2(0)
    /\ aperture = Zero
    /\ shutterSpeed = Zero
    /\ iso = 100
    /\ exposureCompensation = 0
    /\ isStreaming = FALSE
    /\ showApertureSelector = FALSE
    /\ showShutterSelector = FALSE
    /\ showIsoSelector = FALSE
    /\ showEvSelector = FALSE
    /\ pendingWatch = {}
    /\ lastOp = "init"
    /\ sampled = FALSE
    /\ calculatedEV = Pow2(0)
    /\ NoSampler

NextFirst ==
    \/ FirstStartCamera
    \/ FirstAnalyzeBrightness
    \/ FirstSelectIso
    \/ FirstSlideCompensation

SpecFirst == InitFirst /\ [][NextFirst]_vars

-----------------------------------------------------------------------------
(* The luminance samplers: singleMeasurement of the standalone view (every   *)
(* pixel, centre weighted) and the centre crop of the hook-based view.       *)
(* A frame is the RGB part of getImageData's buffer, row by row.             *)

MaxPixels == 9

black == <<0, 0, 0>>
white == <<255, 255, 255>>
red   == <<255, 0, 0>>

\* width x height of a video frame; 0 x 0 before the metadata is known
FrameSizes ==
    {wh \in (0..MaxPixels) \X (0..MaxPixels) :
        /\ wh[1] * wh[2] <= MaxPixels
        /\ (wh[1] = 0) = (wh[2] = 0)}

\* black frames with some pixels lit in white or in red
Frames ==
    UNION {UNION {{[width  |-> wh[1],
                    height |-> wh[2],
                    data   |-> [i \in 1..(wh[1] * wh[2]) |->
                                   IF i \in lit THEN tint ELSE black]] :
                      lit \in SUBSET (1..(wh[1] * wh[2]))} :
                  tint \in {white, red}} :
           wh \in FrameSizes}

\* c <= 0.03928 ? c / 12.92 : Math.pow((c + 0.055) / 1.055, 2.4) for c = byte / 255;
\* of the bytes above the threshold the frames hold 255 only, where the power is 1
linear(byte) ==
    IF byte * 100000 <= 3928 * 255
    THEN Div(Q(byte, 255), Q(1292, 100))
    ELSE Q(1, 1)

centerWeight == Q(6, 10)

\* the pixel (x, y) lies in centerArea (the bounds are inclusive on both sides)
isCenter(x, y, width, height) ==
    LET ax == (width * 3) \div 10
        ay == (height * 3) \div 10
        aw == (width * 4) \div 10
        ah == (height * 4) \div 10
    IN x >= ax /\ x <= ax + aw /\ y >= ay /\ y <= ay + ah

\* 0.2126 r + 0.7152 g + 0.0722 b
luma(r, g, b) ==
    Add(Add(Mul(Q(2126, 10000), r), Mul(Q(7152, 10000), g)),
        Mul(Q(722, 10000), b))

\* luminance of the i-th pixel of the buffer, times its weight
\* (centerWeight in the centre area, 1 - centerWeight outside)
weightedLuminance(f, i) ==
    LET x  == (i - 1) % f.width
        y  == (i - 1) \div f.width
        px == f.data[i]
    IN Mul(luma(linear(px[1]), linear(px[2]), linear(px[3])),
           IF isCenter(x, y, f.width, f.height) THEN centerWeight ELSE Q(4, 10))

RECURSIVE totalLuminance(_, _)
totalLuminance(f, i) ==
    IF i = 0 THEN Zero
    ELSE Add(totalLuminance(f, i - 1), weightedLuminance(f, i))

\* averageLuminance of singleMeasurement: totalLuminance / pixelCount
\* (for a frame with pixels)
viewAverageLuminance(f) ==
    Div(totalLuminance(f, f.width * f.height), Q(f.width * f.height, 1))

\* the hook-based view reads the square of side min(width, height) / 3 in the
\* middle of the frame; getImageData takes its arguments as integers
centerSize(f) == (IF f.width < f.height THEN f.width ELSE f.height) \div 3

cropIndices(f) ==
    LET m  == IF f.width < f.height THEN f.width ELSE f.height
        sx == (3 * f.width - m) \div 6
        sy == (3 * f.height - m) \div 6
    IN {i \in 1..(f.width * f.height) :
           /\ (i - 1) % f.width >= sx
           /\ (i - 1) % f.width < sx + centerSize(f)
           /\ (i - 1) \div f.width >= sy
           /\ (i - 1) \div f.width < sy + centerSize(f)}

RECURSIVE cropLuminance(_, _)
cropLuminance(f, indices) ==
    IF indices = {} THEN Zero
    ELSE LET i  == CHOOSE j \in indices : \A k \in indices : j <= k
             px == f.data[i]
         IN Add(Div(luma(Q(px[1], 1), Q(px[2], 1), Q(px[3], 1)), Q(255, 1)),
                cropLuminance(f, indices \ {i}))

\* averageLuminance of the hook-based view: totalLuminance / (data.length / 4)
\* (for a crop with pixels)
hookViewAverageLuminance(f) ==
    Div(cropLuminance(f, cropIndices(f)), Q(centerSize(f) * centerSize(f), 1))

samplerFixed == <<variant, typeFlag, aperture, shutterSpeed, iso,
                  exposureCompensation, currentEV, isStreaming, selectors,
                  pendingWatch, sampled, frame, cycle, radicand, camera>>

\* singleMeasurement() up to averageLuminance; getImageData throws an
\* IndexSizeError for a canvas without pixels
SingleMeasurement ==
    /\ variant = "sampler"
    /\ lastOp = "init"
    /\ IF frame.width * frame.height = 0
       THEN /\ lastOp' = "IndexSizeError"
            /\ UNCHANGED frameLuminance
       ELSE /\ lastOp' = "singleMeasurement"
            /\ frameLuminance' = viewAverageLuminance(frame)
    /\ UNCHANGED <<samplerFixed, calculatedEV>>

\* analyzeBrightness() of the hook-based view up to averageLuminance
HookViewSample ==
    /\ variant = "sampler"
    /\ lastOp = "init"
    /\ IF centerSize(frame) = 0
       THEN /\ lastOp' = "IndexSizeError"
            /\ UNCHANGED frameLuminance
       ELSE /\ lastOp' = "analyzeBrightness"
            /\ frameLuminance' = hookViewAverageLuminance(frame)
    /\ UNCHANGED <<samplerFixed, calculatedEV>>

\* luminance values handed to calculateEV on its own: below, at, between and
\* above minLuminance and maxLuminance
hookLuminances ==
    {Zero, Q(1, 2000), minLuminance, Q(1, 100), Q(1, 2), maxLuminance,
     Q(96, 100), Q(1, 1)}

MaxSamples == 3

\* the sample counts calculateEV is called with: its default and 1, 2, ...
sampleCounts == {hookDefaultSamples} \cup 1..MaxSamples

\* calculateEV(averageLuminance) of the hook-based view after its sampling, or
\* a call of the exported calculateEV with a luminance and a sample count of
\* its own
CalculateEV ==
    /\ variant = "sampler"
    /\ \/ lastOp = "analyzeBrightness"
       \/ lastOp = "init" /\ frame = NoFrame
    /\ \E l \in IF lastOp = "analyzeBrightness" THEN {frameLuminance}
                 ELSE hookLuminances :
          \E samples \in IF lastOp = "analyzeBrightness" THEN {hookDefaultSamples}
                          ELSE sampleCounts :
             /\ frameLuminance' = l
             /\ calculatedEV' = calculateEV(l, samples)
    /\ lastOp' = "calculateEV"
    /\ UNCHANGED samplerFixed

InitSampler ==
    /\ variant = "sampler"
    /\ typeFlag = "aperture"
    /\ currentEV = Pow2(0)
    /\ aperture = Zero
    /\ shutterSpeed = Zero
    /\ iso = 100
    /\ exposureCompensation = 0
    /\ isStreaming = TRUE
    /\ showApertureSelector = FALSE
    /\ showShutterSelector = FALSE
    /\ showIsoSelector = FALSE
    /\ showEvSelector = FALSE
    /\ pendingWatch = {}
    /\ lastOp = "init"
    /\ sampled = FALSE
    /\ calculatedEV = Pow2(0)
    /\ frame \in Frames
    /\ frameLuminance = Zero
    /\ NoCycle
    /\ radicand = Zero
    /\ NoCamera

NextSampler ==
    \/ SingleMeasurement
    \/ HookViewSample
    \/ CalculateEV

SpecSampler == InitSampler /\ [][NextSampler]_vars

-----------------------------------------------------------------------------
(* The hook-based view: useLightMeter behind the view's handlers, the camera *)
(* of useCamera. `frame` is the picture of the video element that was drawn  *)
(* last: none (0 x 0) until the metadata of the stream is loaded.            *)

grey == <<68, 68, 68>>

hookViewFrames ==
    {[width |-> 3, height |-> 3, data |-> [i \in 1..9 |-> colour]] :
        colour \in {black, grey, white}}

\* 2^ev of analyzeBrightness for the frame it draws
hookViewEVOf ==
    [f \in hookViewFrames |->
        calculateEV(hookViewAverageLuminance(f), hookDefaultSamples)]

\* analyzeBrightness going on whatever the camera delivers (a variation the
\* property of skipped measurements must notice)
hookViewFrameAny(streaming, f) == streaming \/ ~streaming \/ centerSize(f) = 0

\* the guard of analyzeBrightness passes and getImageData has pixels to return
\* (it throws an IndexSizeError for a width or height of 0)
hookViewFrameValid(streaming, f) == streaming /\ centerSize(f) > 0

\* analyzeBrightness() entered with the given values of the hook's refs
hookViewAnalyzeBrightness(op, tf, ap, sh, isoV, comp) ==
    /\ typeFlag' = tf
    /\ iso' = isoV
    /\ exposureCompensation' = comp
    /\ lastOp' = op
    /\ IF hookViewFrameValid(isStreaming, frame)
       THEN \E f \in hookViewFrames :
               LET ev == hookViewEVOf[f]
                   r  == hookSolve(tf, ap, sh, isoV, comp, ev)
               IN /\ frame' = f
                  /\ currentEV' = ev
                  /\ aperture' = r.aperture
                  /\ shutterSpeed' = r.shutterSpeed
                  /\ sampled' = TRUE
                  /\ calculatedEV' = ev
       ELSE /\ aperture' = ap
            /\ shutterSpeed' = sh
            /\ sampled' = FALSE
            /\ UNCHANGED <<frame, currentEV, calculatedEV>>

hookViewFixed == <<variant, pendingWatch, frameLuminance, cycle, radicand, camera>>

\* startCamera of useCamera up to `isStreaming.value = true`
HookViewStartCamera ==
    /\ variant = "hookView"
    /\ ~isStreaming
    /\ isStreaming' = TRUE
    /\ lastOp' = "startCamera"
    /\ sampled' = FALSE
    /\ UNCHANGED <<hookViewFixed, frame, typeFlag, aperture, shutterSpeed, iso,
                   exposureCompensation, currentEV, selectors, calculatedEV>>

\* the stream's metadata is loaded: the video has a width and a height
HookViewLoadedMetadata ==
    /\ variant = "hookView"
    /\ isStreaming
    /\ frame = NoFrame
    /\ frame' = [width |-> 3, height |-> 3, data |-> [i \in 1..9 |-> black]]
    /\ lastOp' = "loadedmetadata"
    /\ sampled' = FALSE
    /\ UNCHANGED <<hookViewFixed, isStreaming, typeFlag, aperture, shutterSpeed,
                   iso, exposureCompensation, currentEV, selectors, calculatedEV>>

\* the measure button
HookViewMeasure ==
    /\ variant = "hookView"
    /\ hookViewAnalyzeBrightness("analyzeBrightness", typeFlag, aperture,
                                 shutterSpeed, iso, exposureCompensation)
    /\ UNCHANGED <<hookViewFixed, isStreaming, selectors>>

\* the 300 ms timer of handleOrientationChange
HookViewOrientationChange ==
    /\ variant = "hookView"
    /\ IF Less(Zero, shutterSpeed)
       THEN hookViewAnalyzeBrightness("orientationchange", typeFlag, aperture,
                                      shutterSpeed, iso, exposureCompensation)
       ELSE /\ lastOp' = "orientationchange"
            /\ sampled' = FALSE
            /\ UNCHANGED <<frame, typeFlag, aperture, shutterSpeed, iso,
                           exposureCompensation, currentEV, calculatedEV>>
    /\ UNCHANGED <<hookViewFixed, isStreaming, selectors>>

\* the mode indicator calls toggleMeteringMode of the hook
HookViewToggleMeteringMode ==
    /\ variant = "hookView"
    /\ toggleMeteringMode
    /\ lastOp' = "toggleMeteringMode"
    /\ sampled' = FALSE
    /\ UNCHANGED <<hookViewFixed, frame, isStreaming, selectors, calculatedEV>>

hookViewClickFixed == <<hookViewFixed, frame, isStreaming, typeFlag, aperture,
                        shutterSpeed, iso, exposureCompensation, currentEV,
                        calculatedEV>>

\* handleApertureClick / handleShutterClick / handleIsoClick / handleEvClick
HookViewClick ==
    /\ variant = "hookView"
    /\ \E which \in {"aperture", "shutter", "iso", "ev"} :
          /\ which \in {"aperture", "shutter"} => typeFlag = which
          /\ showApertureSelector' = (which = "aperture" /\ ~showApertureSelector)
          /\ showShutterSelector' = (which = "shutter" /\ ~showShutterSelector)
          /\ showIsoSelector' = (which = "iso" /\ ~showIsoSelector)
          /\ showEvSelector' = (which = "ev" /\ ~showEvSelector)
    /\ lastOp' = "click"
    /\ sampled' = FALSE
    /\ UNCHANGED hookViewClickFixed

closeAllSelectors ==
    /\ showApertureSelector' = FALSE
    /\ showShutterSelector' = FALSE
    /\ showIsoSelector' = FALSE
    /\ showEvSelector' = FALSE

\* the close button of a popup
HookViewCloseAllSelectors ==
    /\ variant = "hookView"
    /\ showApertureSelector \/ showShutterSelector \/ showIsoSelector \/ showEvSelector
    /\ closeAllSelectors
    /\ lastOp' = "click"
    /\ sampled' = FALSE
    /\ UNCHANGED hookViewClickFixed

\* the apertures picked in the popup (of the 10 it offers)
heldApertureChoices == {standardApertureValues[i] : i \in {1, 4, 7, 10}}

setAperture ==
    /\ variant = "hookView"
    /\ showApertureSelector
    /\ \E value \in heldApertureChoices :
          hookViewAnalyzeBrightness("setAperture", typeFlag, value, shutterSpeed,
                                    iso, exposureCompensation)
    /\ closeAllSelectors
    /\ UNCHANGED <<hookViewFixed, isStreaming>>

setShutterSpeed ==
    /\ variant = "hookView"
    /\ showShutterSelector
    /\ \E value \in heldShutterChoices :
          hookViewAnalyzeBrightness("setShutterSpeed", typeFlag, aperture, value,
                                    iso, exposureCompensation)
    /\ closeAllSelectors
    /\ UNCHANGED <<hookViewFixed, isStreaming>>

setIso ==
    /\ variant = "hookView"
    /\ showIsoSelector
    /\ \E value \in IsoValues :
          hookViewAnalyzeBrightness("setIso", typeFlag, aperture, shutterSpeed,
                                    value, exposureCompensation)
    /\ closeAllSelectors
    /\ UNCHANGED <<hookViewFixed, isStreaming>>

setExposureCompensation ==
    /\ variant = "hookView"
    /\ showEvSelector
    /\ \E value \in CompValues :
          hookViewAnalyzeBrightness("setExposureCompensation", typeFlag, aperture,
                                    shutterSpeed, iso, value)
    /\ closeAllSelectors
    /\ UNCHANGED <<hookViewFixed, isStreaming>>

InitHookView ==
    /\ variant = "hookView"
    /\ currentEV = Pow2(0)
    /\ aperture = Zero
    /\ shutterSpeed = Zero
    /\ iso = 100
    /\ exposureCompensation = 0
    /\ typeFlag = "aperture"
    /\ isStreaming = FALSE
    /\ showApertureSelector = FALSE
    /\ showShutterSelector = FALSE
    /\ showIsoSelector = FALSE
    /\ showEvSelector = FALSE
    /\ pendingWatch = {}
    /\ lastOp = "init"
    /\ sampled = FALSE
    /\ calculatedEV = Pow2(0)
    /\ NoSampler

\* what setIso(value: string) can be called with: the options of the template
\* and two strings that are not among them, '0' and '-100'
setIsoArguments == IsoValues \cup {0, -100}

\* setIso(value) called with any of these
HookViewSetIsoCall ==
    /\ variant = "hookView"
    /\ showIsoSelector
    /\ \E value \in setIsoArguments :
          hookViewAnalyzeBrightness("setIso", typeFlag, aperture, shutterSpeed,
                                    value, exposureCompensation)
    /\ closeAllSelectors
    /\ UNCHANGED <<hookViewFixed, isStreaming>>

NextHookView ==
    \/ HookViewStartCamera
    \/ HookViewLoadedMetadata
    \/ HookViewMeasure
    \/ HookViewOrientationChange
    \/ HookViewToggleMeteringMode
    \/ HookViewClick
    \/ HookViewCloseAllSelectors
    \/ setAperture
    \/ setShutterSpeed
    \/ setIso
    \/ setExposureCompensation

SpecHookView == InitHookView /\ [][NextHookView]_vars

\* the hook-based view with setIso open to every argument
NextSetIso == NextHookView \/ HookViewSetIsoCall

SpecSetIso == InitHookView /\ [][NextSetIso]_vars

-----------------------------------------------------------------------------
(* The standalone view step by step: the tasks of the event loop (clicks,    *)
(* timers, the job of the watcher) and a measurement cycle from its first to *)
(* its last line. The popups are left out.                                   *)

\* a variation: analyzeBrightness awaiting between its sampling and its
\* writes (the property of serialized cycles must notice it)
awaitWhileSampling == {"sampling"}

\* the places at which analyzeBrightness hands the thread back to the event
\* loop before its last line: it has no await
awaitPoints == {}

\* the event loop starts a task when no handler is on the call stack
Dispatchable == running = "idle" \/ running \in awaitPoints

\* a timer callback or a click; the queued job of the watcher runs first
TaskTurn == Dispatchable /\ "watch" \notin pendingWatch

\* the apertures and the shutter speeds picked in the popups
cycleApertureChoices == {apertureValues[i] : i \in {3, 8, 12}}
cycleShutterChoices == {standardShutterSpeeds[i] : i \in {8, 14}}

\* analyzeBrightness() from its guard to the end of the sampling (lines
\* 82-169), entered with the given values of the refs
cycleBegin(op, tf, ap, sh, isoV, comp) ==
    /\ typeFlag' = tf
    /\ aperture' = ap
    /\ shutterSpeed' = sh
    /\ iso' = isoV
    /\ exposureCompensation' = comp
    /\ lastOp' = op
    /\ IF ~isStreaming
       THEN /\ sampled' = FALSE
            /\ UNCHANGED <<calculatedEV, cycle>>
       ELSE /\ \E lum \in viewLuminances : calculatedEV' = viewEVOf[lum]
            /\ sampled' = TRUE
            /\ isMeasuring' = TRUE
            /\ running' = "sampling"
            /\ inFlight' = inFlight + 1

\* a handler that does not get to analyzeBrightness
cycleNone(op, tf, isoV, comp) ==
    /\ typeFlag' = tf
    /\ iso' = isoV
    /\ exposureCompensation' = comp
    /\ lastOp' = op
    /\ sampled' = FALSE
    /\ UNCHANGED <<aperture, shutterSpeed, calculatedEV, cycle>>

cycleFixed == <<variant, currentEV, frame, frameLuminance, selectors, radicand,
                camera>>

\* startCamera: the video plays; a first measurement is set up 1000 ms later
CycleStartCamera ==
    /\ variant = "cycle"
    /\ TaskTurn
    /\ ~isStreaming
    /\ isStreaming' = TRUE
    /\ pendingWatch' = pendingWatch \cup {"timer1000"}
    /\ cycleNone("startCamera", typeFlag, iso, exposureCompensation)
    /\ UNCHANGED cycleFixed

\* the orientationchange listener sets up its 300 ms timer
CycleOrientationChange ==
    /\ variant = "cycle"
    /\ TaskTurn
    /\ pendingWatch' = pendingWatch \cup {"timer300"}
    /\ cycleNone("orientationchange", typeFlag, iso, exposureCompensation)
    /\ UNCHANGED <<cycleFixed, isStreaming>>

\* a timer callback runs
CycleTimer ==
    /\ variant = "cycle"
    /\ TaskTurn
    /\ \E t \in pendingWatch :
          /\ pendingWatch' = pendingWatch \ {t}
          /\ IF t = "timer300" /\ ~Less(Zero, shutterSpeed)
             THEN cycleNone(t, typeFlag, iso, exposureCompensation)
             ELSE cycleBegin(t, typeFlag, aperture, shutterSpeed, iso,
                             exposureCompensation)
    /\ UNCHANGED <<cycleFixed, isStreaming>>

\* the measure button
CycleMeasure ==
    /\ variant = "cycle"
    /\ TaskTurn
    /\ isStreaming
    /\ cycleBegin("analyzeBrightness", typeFlag, aperture, shutterSpeed, iso,
                  exposureCompensation)
    /\ UNCHANGED <<cycleFixed, isStreaming, pendingWatch>>

CycleToggleMeteringMode ==
    /\ variant = "cycle"
    /\ TaskTurn
    /\ LET tf == IF typeFlag = "aperture" THEN "shutter" ELSE "aperture"
       IN IF Less(Zero, shutterSpeed)
          THEN cycleBegin("toggleMeteringMode", tf, aperture, shutterSpeed, iso,
                          exposureCompensation)
          ELSE cycleNone("toggleMeteringMode", tf, iso, exposureCompensation)
    /\ UNCHANGED <<cycleFixed, isStreaming, pendingWatch>>

CycleApertureSelect ==
    /\ variant = "cycle"
    /\ TaskTurn
    /\ \E value \in cycleApertureChoices :
          cycleBegin("handleApertureSelect", "aperture", value, shutterSpeed, iso,
                     exposureCompensation)
    /\ UNCHANGED <<cycleFixed, isStreaming, pendingWatch>>

CycleShutterSelect ==
    /\ variant = "cycle"
    /\ TaskTurn
    /\ \E speed \in cycleShutterChoices :
          cycleBegin("handleShutterSelect", "shutter", aperture, speed, iso,
                     exposureCompensation)
    /\ UNCHANGED <<cycleFixed, isStreaming, pendingWatch>>

\* handleIsoSelect and the compensation slider: a changed value queues the job
\* of watch([iso, exposureCompensation])
CycleIsoSelect ==
    /\ variant = "cycle"
    /\ TaskTurn
    /\ \E value \in IsoValues :
          /\ cycleNone("handleIsoSelect", typeFlag, value, exposureCompensation)
          /\ pendingWatch' = Queued(pendingWatch, "watch", iso, value)
    /\ UNCHANGED <<cycleFixed, isStreaming>>

CycleSlideCompensation ==
    /\ variant = "cycle"
    /\ TaskTurn
    /\ \E value \in sliderStops :
          /\ cycleNone("exposureCompensation", typeFlag, iso, value)
          /\ pendingWatch' = Queued(pendingWatch, "watch", exposureCompensation, value)
    /\ UNCHANGED <<cycleFixed, isStreaming>>

\* the job of watch([iso, exposureCompensation]) (lines 204-208)
CycleWatcher ==
    /\ variant = "cycle"
    /\ Dispatchable
    /\ "watch" \in pendingWatch
    /\ pendingWatch' = pendingWatch \ {"watch"}
    /\ IF Less(Zero, shutterSpeed)
       THEN cycleBegin("watch", typeFlag, aperture, shutterSpeed, iso,
                       exposureCompensation)
       ELSE cycleNone("watch", typeFlag, iso, exposureCompensation)
    /\ UNCHANGED <<cycleFixed, isStreaming>>

\* analyzeBrightness() from the solve to its last line (lines 171-200)
CycleFinish ==
    /\ variant = "cycle"
    /\ running = "sampling"
    /\ LET r == viewSolve(typeFlag, aperture, shutterSpeed, iso,
                          exposureCompensation, calculatedEV)
       IN /\ aperture' = r.aperture
          /\ shutterSpeed' = r.shutterSpeed
    /\ isMeasuring' = FALSE
    /\ running' = "idle"
    /\ inFlight' = inFlight - 1
    /\ lastOp' = "isMeasuring = false"
    /\ UNCHANGED <<cycleFixed, isStreaming, pendingWatch, typeFlag, iso,
                   exposureCompensation, sampled, calculatedEV>>

InitCycle ==
    /\ variant = "cycle"
    /\ currentEV = Pow2(0)
    /\ aperture = Q(14, 10)
    /\ shutterSpeed = Zero
    /\ iso = 100
    /\ exposureCompensation = 0
    /\ typeFlag = "aperture"
    /\ isStreaming = FALSE
    /\ showApertureSelector = FALSE
    /\ showShutterSelector = FALSE
    /\ showIsoSelector = FALSE
    /\ showEvSelector = FALSE
    /\ pendingWatch = {}
    /\ lastOp = "init"
    /\ sampled = FALSE
    /\ calculatedEV = Pow2(0)
    /\ NoSampler

NextCycle ==
    \/ CycleStartCamera
    \/ CycleOrientationChange
    \/ CycleTimer
    \/ CycleMeasure
    \/ CycleToggleMeteringMode
    \/ CycleApertureSelect
    \/ CycleShutterSelect
    \/ CycleIsoSelect
    \/ CycleSlideCompensation
    \/ CycleWatcher
    \/ CycleFinish

SpecCycle == InitCycle /\ [][NextCycle]_vars

-----------------------------------------------------------------------------
(* The standalone view and the hook-based view side by side                  *)

InitViews == InitView \/ InitHookView

NextViews == NextView \/ NextHookView

SpecViews == InitViews /\ [][NextViews]_vars

-----------------------------------------------------------------------------
(* The hook and the standalone view side by side                             *)

Init == InitHook \/ InitView

Next == NextHook \/ NextView

Spec == Init /\ [][Next]_vars

-----------------------------------------------------------------------------
(* The snap functions by themselves, applied to a value given as the root    *)
(* of `radicand` (the value that is as far from one shutter speed as from    *)
(* the next is the root of their product)                                    *)

\* the argument is the square of the source's `value`
getStandardShutterSpeedOfRoot(valueSq) ==
    Reduce("log2 of root", standardShutterSpeeds, valueSq)

\* the squares of the values halfway between an entry of a table and the next,
\* by the distance of the snap function that reads the table
halfwayShutterSpeeds ==
    {Mul(standardShutterSpeeds[i], standardShutterSpeeds[i + 1]) :
        i \in 1..(Len(standardShutterSpeeds) - 1)}

halfwayApertureValues ==
    {Sqr(Div(Add(standardApertureValues[i], standardApertureValues[i + 1]), Q(2, 1))) :
        i \in 1..(Len(standardApertureValues) - 1)}

halfwayApertures ==
    {Mul(apertureValues[i], apertureValues[i + 1]) : i \in 1..(Len(apertureValues) - 1)}

\* squares of positive values under and over the two tables
outsideRadicands ==
    {Sqr(Q(1, 9000)), Sqr(Q(1, 2)), Sqr(Q(23, 1)), Sqr(Q(31, 1))}

\* the squares of the values the snap functions are applied to: the halfway
\* values, the entries themselves, values a quarter off an entry and values
\* outside the tables
snapRadicands ==
    outsideRadicands \cup
    halfwayShutterSpeeds \cup halfwayApertureValues \cup halfwayApertures
        \cup {Sqr(standardShutterSpeeds[i]) : i \in 1..Len(standardShutterSpeeds)}
        \cup {Sqr(apertureValues[i]) : i \in 1..Len(apertureValues)}
        \cup {Sqr(Mul(Q(5, 4), standardApertureValues[i])) :
                  i \in 1..(Len(standardApertureValues) - 1)}

\* the range of the shutter table, on the square
InShutterRangeSq(q) == ~(Less(q, Sqr(minShutter)) \/ Less(Sqr(maxShutter), q))

snapFixed == <<variant, typeFlag, iso, exposureCompensation, currentEV, isStreaming,
               selectors, pendingWatch, sampled, calculatedEV, apart>>

\* shutterSpeed.value = getStandardShutterSpeed(shutterValue) of the hook
SnapStandardShutterSpeed ==
    /\ variant = "snap"
    /\ shutterSpeed' = getStandardShutterSpeedOfRoot(radicand)
    /\ lastOp' = "getStandardShutterSpeed"
    /\ UNCHANGED <<snapFixed, aperture>>

\* aperture.value = getStandardApertureValue(calculatedAperture) of the hook
SnapStandardApertureValue ==
    /\ variant = "snap"
    /\ aperture' = getStandardApertureValue(radicand)
    /\ lastOp' = "getStandardApertureValue"
    /\ UNCHANGED <<snapFixed, shutterSpeed>>

\* getStandardShutterSpeed of the standalone view
SnapViewStandardShutterSpeed ==
    /\ variant = "snap"
    /\ shutterSpeed' = getStandardShutterSpeedOfRoot(radicand)
    /\ lastOp' = "viewGetStandardShutterSpeed"
    /\ UNCHANGED <<snapFixed, aperture>>

\* getStandardAperture of the standalone view
SnapStandardAperture ==
    /\ variant = "snap"
    /\ aperture' = getStandardAperture(radicand)
    /\ lastOp' = "getStandardAperture"
    /\ UNCHANGED <<snapFixed, shutterSpeed>>

InitSnap ==
    /\ variant = "snap"
    /\ typeFlag = "none"
    /\ currentEV = Pow2(0)
    /\ aperture = Zero
    /\ shutterSpeed = Zero
    /\ iso = 100
    /\ exposureCompensation = 0
    /\ isStreaming = FALSE
    /\ showApertureSelector = FALSE
    /\ showShutterSelector = FALSE
    /\ showIsoSelector = FALSE
    /\ showEvSelector = FALSE
    /\ pendingWatch = {}
    /\ lastOp = "init"
    /\ sampled = FALSE
    /\ calculatedEV = Pow2(0)
    /\ frame = NoFrame
    /\ frameLuminance = Zero
    /\ NoCycle
    /\ NoCamera
    /\ radicand \in snapRadicands

NextSnap ==
    \/ SnapStandardShutterSpeed
    \/ SnapStandardApertureValue
    \/ SnapViewStandardShutterSpeed
    \/ SnapStandardAperture

SpecSnap == InitSnap /\ [][NextSnap]_vars

-----------------------------------------------------------------------------
(* useCamera (part_000 113-220) as CameraPreview drives it (part_000 16-30): *)
(* variant "camera".  An await splits a function into the part that runs at  *)
(* the call and a continuation that runs when the promise settles; the       *)
(* continuations wait in pendingWatch.  Every part runs to completion.       *)

MaxDevices == 2
MaxStreams == 3

Devices == 1..MaxDevices

\* a continuation: `by` is the function the user called, `await` the promise
\* it waits for, `exact` the deviceId constraint of its getUserMedia (0: the
\* facingMode constraint of startCamera), `was` and `streaming` the active
\* device and isStreaming when switchCamera was called
Continuation(by, awaits, exact, was, streaming) ==
    [by |-> by, await |-> awaits, exact |-> exact, was |-> was,
     streaming |-> streaming]

PendingOf(pending, by) == {c \in pending : c.by = by}

\* a MediaStream not handed out before that is still running
newStream(device) ==
    [id |-> CHOOSE i \in 1..MaxStreams :
                /\ i \notin {t.id : t \in tracks}
                /\ \A j \in 1..(i - 1) : j \in {t.id : t \in tracks},
     device |-> device]

cameraFixed == <<variant, typeFlag, currentEV, aperture, shutterSpeed, iso,
                 exposureCompensation, selectors, sampled, calculatedEV, frame,
                 frameLuminance, cycle, radicand>>

\* stopCamera that forgets the stream and leaves isStreaming alone
stopCameraStreamOnly(s, live, streaming) ==
    IF s # NoStream
    THEN [stream |-> NoStream, tracks |-> live \ {s}, isStreaming |-> streaming]
    ELSE [stream |-> s, tracks |-> live, isStreaming |-> streaming]

\* stopCamera (part_000 165-171)
stopCamera(s, live, streaming) ==
    IF s # NoStream
    THEN [stream |-> NoStream, tracks |-> live \ {s}, isStreaming |-> FALSE]
    ELSE [stream |-> s, tracks |-> live, isStreaming |-> streaming]

\* the synchronous part of startCamera (part_000 132-138): it ends at the
\* await of getUserMedia
startCamera(by, was, streaming) ==
    Continuation(by, "getUserMedia", 0, was, streaming)

\* the user calls startCamera (onMounted, part_000 17-19)
CameraStartCamera ==
    /\ variant = "camera"
    /\ video
    /\ PendingOf(pendingWatch, "startCamera") = {}
    /\ Cardinality(tracks) + Cardinality(pendingWatch) < MaxStreams
    /\ pendingWatch' = pendingWatch \cup {startCamera("startCamera", 0, FALSE)}
    /\ lastOp' = "startCamera"
    /\ UNCHANGED <<cameraFixed, isStreaming, camera>>

\* getUserMedia of startCamera settles (part_000 138-161)
CameraGetUserMedia ==
    /\ variant = "camera"
    /\ \E c \in pendingWatch :
        /\ c.await = "getUserMedia"
        /\ c.exact = 0
        /\ \/ \E device \in Devices :
                LET s == newStream(device) IN
                /\ stream' = s
                /\ tracks' = tracks \cup {s}
                /\ IF video
                   THEN /\ isStreaming' = TRUE
                        /\ pendingWatch' = (pendingWatch \ {c}) \cup
                               {Continuation(c.by, "loadedmetadata", 0, c.was,
                                             c.streaming)}
                   ELSE /\ isStreaming' = isStreaming
                        /\ pendingWatch' = pendingWatch \ {c}
                /\ lastOp' = "getUserMedia"
           \/ /\ pendingWatch' = pendingWatch \ {c}
              /\ lastOp' = "getUserMedia failed"
              /\ UNCHANGED <<stream, tracks, isStreaming>>
    /\ UNCHANGED <<cameraFixed, video, opened>>

\* the video element reports its metadata (part_000 148-154)
CameraLoadedMetadata ==
    /\ variant = "camera"
    /\ \E c \in pendingWatch :
        /\ c.await = "loadedmetadata"
        /\ pendingWatch' = pendingWatch \ {c}
    /\ lastOp' = "loadedmetadata"
    /\ UNCHANGED <<cameraFixed, isStreaming, camera>>

\* the user calls stopCamera
CameraStopCamera ==
    /\ variant = "camera"
    /\ video
    /\ LET after == stopCamera(stream, tracks, isStreaming) IN
        /\ stream' = after.stream
        /\ tracks' = after.tracks
        /\ isStreaming' = after.isStreaming
    /\ lastOp' = "stopCamera"
    /\ UNCHANGED <<cameraFixed, pendingWatch, video, opened>>

\* the user calls switchCamera (part_000 174-181): it ends at the await of
\* enumerateDevices
CameraSwitchCamera ==
    /\ variant = "camera"
    /\ video
    /\ PendingOf(pendingWatch, "switchCamera") = {}
    /\ Cardinality(tracks) + Cardinality(pendingWatch) <= MaxStreams
    /\ IF stream # NoStream
       THEN LET after == stopCamera(stream, tracks, isStreaming) IN
            /\ stream' = after.stream
            /\ tracks' = after.tracks
            /\ isStreaming' = after.isStreaming
            /\ pendingWatch' = pendingWatch \cup
                   {Continuation("switchCamera", "enumerateDevices", 0,
                                 stream.device, isStreaming)}
       ELSE UNCHANGED <<stream, tracks, isStreaming, pendingWatch>>
    /\ lastOp' = "switchCamera"
    /\ UNCHANGED <<cameraFixed, video, opened>>

\* the device switchCamera picks among the videoDevices 1..count
\* (part_000 186-188); deviceId 0 is undefined
newDevice(count, s) ==
    LET currentDeviceId == IF s = NoStream THEN 0 ELSE s.device
    IN CHOOSE d \in 1..count :
           /\ d # currentDeviceId
           /\ \A e \in 1..(d - 1) : e = currentDeviceId

\* enumerateDevices of switchCamera settles (part_000 181-191, 201-204)
CameraEnumerateDevices ==
    /\ variant = "camera"
    /\ \E c \in pendingWatch :
        /\ c.await = "enumerateDevices"
        /\ \/ \E count \in 0..MaxDevices :
                /\ pendingWatch' =
                       IF count > 1
                       THEN (pendingWatch \ {c}) \cup
                                {Continuation(c.by, "getUserMedia",
                                              newDevice(count, stream), c.was,
                                              c.streaming)}
                       ELSE pendingWatch \ {c}
                /\ lastOp' = "enumerateDevices"
           \/ /\ pendingWatch' = (pendingWatch \ {c}) \cup
                      {startCamera(c.by, c.was, c.streaming)}
              /\ lastOp' = "enumerateDevices failed"
    /\ UNCHANGED <<cameraFixed, isStreaming, camera>>

\* getUserMedia of switchCamera settles (part_000 191-204)
CameraSwitchGetUserMedia ==
    /\ variant = "camera"
    /\ \E c \in pendingWatch :
        /\ c.await = "getUserMedia"
        /\ c.exact # 0
        /\ \/ LET s == newStream(c.exact) IN
              /\ stream' = s
              /\ tracks' = tracks \cup {s}
              /\ isStreaming' = IF video THEN TRUE ELSE isStreaming
              /\ opened' = [was |-> c.was, device |-> c.exact,
                          streaming |-> c.streaming]
              /\ pendingWatch' = pendingWatch \ {c}
              /\ lastOp' = "switchCamera opened"
           \/ /\ pendingWatch' = (pendingWatch \ {c}) \cup
                      {startCamera(c.by, c.was, c.streaming)}
              /\ lastOp' = "switchCamera failed"
              /\ UNCHANGED <<stream, tracks, isStreaming, opened>>
    /\ UNCHANGED <<cameraFixed, video>>

\* CameraPreview is unmounted (part_000 22-24): the template ref is cleared
\* and onUnmounted calls stopCamera
CameraUnmounted ==
    /\ variant = "camera"
    /\ video
    /\ video' = FALSE
    /\ LET after == stopCamera(stream, tracks, isStreaming) IN
        /\ stream' = after.stream
        /\ tracks' = after.tracks
        /\ isStreaming' = after.isStreaming
    /\ lastOp' = "unmounted"
    /\ UNCHANGED <<cameraFixed, pendingWatch, opened>>

InitCamera ==
    /\ variant = "camera"
    /\ typeFlag = "none"
    /\ currentEV = Pow2(0)
    /\ aperture = Zero
    /\ shutterSpeed = Zero
    /\ iso = 100
    /\ exposureCompensation = 0
    /\ isStreaming = FALSE
    /\ showApertureSelector = FALSE
    /\ showShutterSelector = FALSE
    /\ showIsoSelector = FALSE
    /\ showEvSelector = FALSE
    /\ pendingWatch = {}
    /\ lastOp = "init"
    /\ sampled = FALSE
    /\ calculatedEV = Pow2(0)
    /\ frame = NoFrame
    /\ frameLuminance = Zero
    /\ NoCycle
    /\ radicand = Zero
    /\ stream = NoStream
    /\ tracks = {}
    /\ video = TRUE
    /\ opened = NoSwitch

NextCamera ==
    \/ CameraStartCamera
    \/ CameraGetUserMedia
    \/ CameraLoadedMetadata
    \/ CameraStopCamera
    \/ CameraSwitchCamera
    \/ CameraEnumerateDevices
    \/ CameraSwitchGetUserMedia
    \/ CameraUnmounted

SpecCamera == InitCamera /\ [][NextCamera]_vars

-----------------------------------------------------------------------------
(* Properties                                                                *)

\* the state is the result of a solve: updateExposureParams of the hook, or an
\* analyzeBrightness of a view that read a frame
Solved ==
    \/ variant = "hook" /\ lastOp = "updateExposureParams"
    \/ variant \in {"view", "watcher"} /\ sampled

\* the table of the controller at hand
ApertureTable ==
    IF variant = "hook" THEN Range(standardApertureValues) ELSE Range(apertureValues)

\* 2^-(EV-comp) * (100/ISO) * aperture^2 of the state
ShutterRaw ==
    Mul(Mul(Div(Pow2(exposureCompensation), calculatedEV), Q(100, iso)),
        Mul(aperture, aperture))

\* shutterSpeed * (100/ISO) * 2^(EV-comp) of the state, the square of apertureRaw
ApertureRawSq ==
    Mul(Mul(shutterSpeed, Q(100, iso)),
        Div(calculatedEV, Pow2(exposureCompensation)))

\* C1: after an aperture-priority solve (the view with watchers has no other),
\* shutterSpeed is the sentinel 0 exactly when shutterRaw < 1/8000 or
\* shutterRaw > 30, and it is an entry of the standard shutter table otherwise;
\* no out-of-range value is clamped into the range.
C1_ShutterSentinelIffOutOfRange ==
    (Solved /\ (typeFlag = "aperture" \/ variant = "watcher")) =>
        /\ (shutterSpeed = Zero) <=>
              (Less(ShutterRaw, Q(1, 8000)) \/ Less(Q(30, 1), ShutterRaw))
        /\ shutterSpeed # Zero => shutterSpeed \in Range(standardShutterSpeeds)

\* C2: after a shutter-priority solve with a held shutterSpeed > 0, aperture is
\* the sentinel 0 exactly when apertureRaw < 1.0 or apertureRaw > 22.0, and it
\* is an entry of the standard aperture table otherwise.
C2_ApertureSentinelIffOutOfRange ==
    (Solved /\ typeFlag = "shutter" /\ Less(Zero, shutterSpeed)) =>
        /\ (aperture = Zero) <=>
              (Less(ApertureRawSq, Q(1, 1)) \/ Less(Q(484, 1), ApertureRawSq))
        /\ aperture # Zero => aperture \in ApertureTable

C2_Witness ==
    /\ Solved /\ typeFlag = "shutter" /\ Less(Zero, shutterSpeed)
    /\ Less(Q(484, 1), ApertureRawSq)
    /\ aperture = Zero

\* C10: after an aperture-priority solve, a raw shutter of exactly 30 or
\* exactly 1/8000 gives that table entry (a valid result), and a raw shutter
\* above 30 or below 1/8000 gives the sentinel 0.
C10_ShutterBoundsInclusive ==
    (Solved /\ typeFlag = "aperture") =>
        /\ ShutterRaw = Q(30, 1) => shutterSpeed = Q(30, 1)
        /\ ShutterRaw = Q(1, 8000) => shutterSpeed = Q(1, 8000)
        /\ Less(Q(30, 1), ShutterRaw) => shutterSpeed = Zero
        /\ Less(ShutterRaw, Q(1, 8000)) => shutterSpeed = Zero

C10_Witness ==
    /\ Solved /\ typeFlag = "aperture"
    /\ ShutterRaw = Q(30, 1)
    /\ shutterSpeed = Q(30, 1)

\* the table of the controller at hand (both views and the hook use one table)
ShutterTable == Range(standardShutterSpeeds)

\* C3: after a shutter-priority solve with a valid result, aperture is the
\* entry of the standard aperture table that minimises
\* |log2(candidate) - log2(apertureRaw)|; a raw aperture of 5.0 gives 5.6.
C3_ApertureSnapLog2Nearest ==
    (Solved /\ typeFlag = "shutter" /\ Less(Zero, shutterSpeed) /\ aperture # Zero) =>
        /\ aperture \in ApertureTable
        /\ \A c \in ApertureTable :
              ~Less(Ratio(Sqr(c), ApertureRawSq), Ratio(Sqr(aperture), ApertureRawSq))
        /\ ApertureRawSq = Q(25, 1) => aperture = Q(56, 10)

\* C4: after an aperture-priority solve with a valid result, shutterSpeed is
\* the entry of the standard shutter table that minimises
\* |log2(candidate) - log2(shutterRaw)|; a raw shutter of 1/61 gives 1/60.
C4_ShutterSnapLog2Nearest ==
    (Solved /\ typeFlag = "aperture" /\ shutterSpeed # Zero) =>
        /\ shutterSpeed \in ShutterTable
        /\ \A c \in ShutterTable :
              ~Less(Ratio(c, ShutterRaw), Ratio(shutterSpeed, ShutterRaw))
        /\ ShutterRaw = Q(1, 61) => shutterSpeed = Q(1, 60)

C4_Witness ==
    /\ Solved /\ typeFlag = "aperture"
    /\ ShutterRaw = Q(1, 61)
    /\ shutterSpeed = Q(1, 60)

\* the worked example: updateExposureParams in aperture priority with EV = 10,
\* ISO 100, compensation 0 and aperture 8.0
C5_Scenario ==
    /\ variant = "hook" /\ lastOp = "updateExposureParams"
    /\ typeFlag = "aperture"
    /\ calculatedEV = Pow2(10) /\ iso = 100 /\ exposureCompensation = 0
    /\ aperture = Q(8, 1)

\* C5 (as the code has it): the worked example (shutterRaw = 0.0625) produces
\* shutterSpeed = 1/15, a valid result.
C5_ExampleGivesOneFifteenth == C5_Scenario => shutterSpeed = Q(1, 15)

\* C5 (as stated): the worked example produces shutterSpeed = 1/30.
C5_ExampleGivesOneThirtieth == C5_Scenario => shutterSpeed = Q(1, 30)

C5_Witness == C5_Scenario /\ ShutterRaw = Q(1, 16) /\ shutterSpeed = Q(1, 15)

\* C7: a toggle of the mode flips typeFlag and leaves aperture and
\* shutterSpeed as a solve of the new mode from the last EV gives them,
\* without reading a frame and without a new EV.
C7_ToggleResolvesFromLastEV ==
    [][(lastOp' = "toggleMeteringMode" /\ variant = "hook") =>
          /\ typeFlag' # typeFlag
          /\ ~sampled' /\ calculatedEV' = calculatedEV /\ currentEV' = currentEV
          /\ LET r == hookSolve(typeFlag', aperture, shutterSpeed, iso,
                                exposureCompensation, currentEV)
             IN aperture' = r.aperture /\ shutterSpeed' = r.shutterSpeed]_vars

\* C8: a change of ISO or of the compensation reads no frame and leaves the EV
\* of the last measurement as it is.
C8_IsoCompChangeKeepsEV ==
    [][(iso' # iso \/ exposureCompensation' # exposureCompensation) =>
          (~sampled' /\ calculatedEV' = calculatedEV)]_vars

\* the aperture a shutter-priority solve gives from the state's EV, ISO,
\* compensation and shutter speed
ResolvedAperture ==
    IF variant = "hook"
    THEN hookSolve("shutter", aperture, shutterSpeed, iso, exposureCompensation,
                   calculatedEV).aperture
    ELSE viewSolve("shutter", aperture, shutterSpeed, iso, exposureCompensation,
                   calculatedEV).aperture

\* C6: after an aperture-priority solve from a standard aperture a that gave a
\* valid shutter s, a shutter-priority solve with the same EV, ISO and
\* compensation and the held shutter s gives aperture a again.
C6_RoundTripRecoversAperture ==
    (Solved /\ typeFlag = "aperture" /\ shutterSpeed # Zero
        /\ aperture \in ApertureTable) => ResolvedAperture = aperture

\* a step that is one measurement and nothing else
MeasurementStep == lastOp' \in {"analyzeBrightness", "updateExposureParams"}

\* C9: a measurement changes at most one of aperture and shutterSpeed (the
\* aperture stays in aperture priority, the shutter speed in shutter
\* priority) and leaves ISO, compensation and mode alone.
C9_MeasurementWritesOneParameter ==
    [][MeasurementStep =>
          /\ typeFlag = "aperture" => aperture' = aperture
          /\ typeFlag = "shutter" => shutterSpeed' = shutterSpeed
          /\ aperture' = aperture \/ shutterSpeed' = shutterSpeed
          /\ UNCHANGED <<iso, exposureCompensation, typeFlag>>]_vars

\* C11: the luminance samplers return a value in [0, 1]; an all-black frame
\* gives 0 and an all-white frame gives about 1 (here: at least 0.99)
AllOf(colour) == \A i \in 1..Len(frame.data) : frame.data[i] = colour

C11_LuminanceInUnitRange ==
    (variant = "sampler" /\ lastOp \in {"singleMeasurement", "analyzeBrightness"})
        => /\ Leq(Zero, frameLuminance)
           /\ Leq(frameLuminance, Q(1, 1))
           /\ AllOf(black) => frameLuminance = Zero
           /\ AllOf(white) => Leq(Q(99, 100), frameLuminance)

\* C12: calculateEV is monotonic in the luminance. As stated: strictly
\* increasing for any two luminance values.
C12_CalculateEVStrictlyIncreasing ==
    (variant = "sampler" /\ lastOp = "calculateEV")
        => \A l \in hookLuminances :
               Less(l, frameLuminance)
                   => Less(calculateEV(l, hookDefaultSamples), calculatedEV)

\* C12 as the code has it: calculateEV never decreases when the luminance
\* grows; it is constant up to minLuminance and from maxLuminance on, and
\* strictly increasing between the two
C12_CalculateEVNonDecreasing ==
    (variant = "sampler" /\ lastOp = "calculateEV")
        => \A l \in hookLuminances :
               Less(l, frameLuminance)
                   => /\ Leq(calculateEV(l, hookDefaultSamples), calculatedEV)
                      /\ Leq(frameLuminance, minLuminance)
                             => calculateEV(l, hookDefaultSamples) = calculatedEV
                      /\ Leq(maxLuminance, l)
                             => calculateEV(l, hookDefaultSamples) = calculatedEV
                      /\ (Leq(minLuminance, l) /\ Leq(frameLuminance, maxLuminance))
                             => Less(calculateEV(l, hookDefaultSamples), calculatedEV)

\* calculateEV(0.5) = log2(60) was computed, above calculateEV(0.01) = log2(1.2)
C12_Witness ==
    /\ variant = "sampler"
    /\ lastOp = "calculateEV"
    /\ frameLuminance = Q(1, 2)
    /\ calculatedEV = Q(60, 1)
    /\ Less(calculateEV(Q(1, 100), hookDefaultSamples), calculatedEV)

\* the EV the controller shows
ExposedEV ==
    IF variant = "view"
    THEN viewCurrentEV(aperture, shutterSpeed, iso, exposureCompensation)
    ELSE IF variant = "watcher"
    THEN watcherCurrentEV(aperture, shutterSpeed, iso, exposureCompensation)
    ELSE currentEV

\* the camera is not streaming, or the video has no pixels
NoValidFrame ==
    \/ ~isStreaming
    \/ variant = "hookView" /\ frame.width * frame.height = 0

\* C13: a measure request (the measure button, the timers) made when no valid
\* frame is available changes none of aperture, shutterSpeed, EV, ISO,
\* compensation and mode, so nothing (and no degenerate value) is published
C13_MeasureWithoutFrameSkipped ==
    [][(lastOp' \in {"analyzeBrightness", "orientationchange"} /\ NoValidFrame)
           => /\ UNCHANGED <<aperture, shutterSpeed, iso, exposureCompensation,
                             typeFlag, currentEV>>
              /\ ExposedEV' = ExposedEV]_vars

\* the hook-based view was asked to measure with a held aperture while the
\* stream had no metadata yet (a video of 0 x 0 pixels)
C13_Witness ==
    /\ variant = "hookView"
    /\ lastOp = "analyzeBrightness"
    /\ isStreaming
    /\ frame = NoFrame
    /\ Less(Zero, aperture)
    /\ shutterSpeed = Zero

\* C14: measurement cycles are serialized: whatever the trigger, a cycle
\* begins only when none is in flight, so at most one cycle is between its
\* first line and its writes to aperture and shutterSpeed
C14_CyclesSerialized ==
    /\ inFlight <= 1
    /\ inFlight = 1 <=> running = "sampling"
    /\ isMeasuring <=> inFlight = 1

\* a cycle is in flight while the 300 ms timer of an orientation change waits
C14_Witness ==
    /\ variant = "cycle"
    /\ inFlight = 1
    /\ "timer300" \in pendingWatch
    /\ Less(Zero, shutterSpeed)

\* C15: the cascade of an aperture edit ends after the one solve of the
\* shutter speed: the watcher of shutterSpeed that runs after the watcher of
\* aperture leaves the aperture as it is and queues no further watcher
C15_CascadeEndsAfterOneSolve ==
    [][(lastOp = "watch(aperture)" /\ lastOp' = "watch(shutterSpeed)")
           => (aperture' = aperture /\ pendingWatch' = {})]_vars

\* C16: the initial state has ISO 100, compensation 0, a mode of the two, an
\* aperture in [1.0, 22.0] and a shutter speed in [1/8000, 30] (not the
\* sentinel 0)
C16_InitialStateValid ==
    lastOp = "init" =>
        /\ iso = 100
        /\ exposureCompensation = 0
        /\ typeFlag \in {"aperture", "shutter"}
        /\ Leq(Q(1, 1), aperture) /\ Leq(aperture, Q(22, 1))
        /\ Leq(minShutter, shutterSpeed) /\ Leq(shutterSpeed, maxShutter)

\* C17: the EV the controller shows changes only in a step that measured a
\* frame: parameter edits and mode toggles without a measurement keep it
C17_EVOnlyFromMeasurement ==
    [][~(Solved' \/ sampled') => ExposedEV' = ExposedEV]_vars

C19_ShutterDerivationCanonical ==
    (variant = "watcher" /\ sampled) =>
        LET raw(i, a) ==
                watcherCalculatedSpeed(calculatedEV, exposureCompensation, i, a)
        IN /\ raw(iso, aperture)
                  = hookShutterValue(calculatedEV, exposureCompensation, iso, aperture)
           /\ \A i \in IsoValues : i > iso => Less(raw(i, aperture), raw(iso, aperture))
           /\ \A a \in Range(watcherApertureValues) :
                  Less(aperture, a) => Less(raw(iso, aperture), raw(iso, a))

\* c and p are equally far from the root of q
Tie(distance, c, p, q) ==
    c # p /\ ~Closer(distance, c, p, q) /\ ~Closer(distance, p, c, q)

\* where two entries of the table are equally far from the root of radicand
\* and no entry is closer, the result is the earlier (lower) of the two
TieGivesEarlier(distance, seq, result) ==
    \A i, j \in 1..Len(seq) :
        (/\ i < j
         /\ Tie(distance, seq[i], seq[j], radicand)
         /\ \A k \in 1..Len(seq) : ~Closer(distance, seq[k], seq[i], radicand))
            => result = seq[i] /\ Less(seq[i], seq[j])

\* C20: a snap function applied to a value exactly as far from one table
\* entry as from another (and nearer to no third) returns the lower, earlier
\* entry: the shutter snaps by log2 distance, the aperture snap of the hook
\* by linear distance and the aperture snap of the view by log2 distance
C20_TieSnapsToLowerEntry ==
    variant = "snap" =>
        /\ lastOp \in {"getStandardShutterSpeed", "viewGetStandardShutterSpeed"}
               => TieGivesEarlier("log2 of root", standardShutterSpeeds, shutterSpeed)
        /\ lastOp = "getStandardApertureValue"
               => TieGivesEarlier("linear of root", standardApertureValues, aperture)
        /\ lastOp = "getStandardAperture"
               => TieGivesEarlier("log2 of root", apertureValues, aperture)

\* the root of 1/2 is as far (in stops) from 1/2 s as from 1 s and was
\* snapped to 1/2 s
C20_Witness ==
    /\ variant = "snap"
    /\ lastOp = "getStandardShutterSpeed"
    /\ radicand = Q(1, 2)
    /\ Tie("log2 of root", Q(1, 2), Q(1, 1), radicand)
    /\ shutterSpeed = Q(1, 2)

C22_ZeroStateAbsorbing ==
    [][(variant = "hook" /\ aperture = Zero /\ shutterSpeed = Zero)
           => \/ aperture' = Zero /\ shutterSpeed' = Zero
              \/ /\ lastOp' = "assign"
                 /\ UNCHANGED <<typeFlag, iso, exposureCompensation, currentEV>>]_vars

\* aperture and shutterSpeed are still 0 after an updateExposureParams(10) in
\* mode 'shutter' at ISO 200 and compensation 1
C22_Witness ==
    /\ variant = "hook"
    /\ lastOp = "updateExposureParams"
    /\ typeFlag = "shutter"
    /\ iso = 200
    /\ exposureCompensation = 1
    /\ currentEV = Pow2(10)
    /\ aperture = Zero
    /\ shutterSpeed = Zero

\* C23: in the hook and in the view built on it, with the selections taken
\* from the tables, shutterSpeed is always an entry of standardShutterSpeeds
\* or 0 and aperture an entry of standardApertureValues or 0
C23_StoredValuesInTables ==
    variant \in {"hook", "hookView"} =>
        /\ shutterSpeed \in Range(standardShutterSpeeds) \cup {Zero}
        /\ aperture \in Range(standardApertureValues) \cup {Zero}

\* f/1.0 at ISO 100 and EV log2(61) gives the shutter value 1/61, which is
\* no table entry, and 1/60 was stored
C23_Witness ==
    /\ variant = "hook"
    /\ lastOp = "updateExposureParams"
    /\ typeFlag = "aperture"
    /\ aperture = Q(1, 1)
    /\ iso = 100
    /\ exposureCompensation = 0
    /\ currentEV = Q(61, 1)
    /\ hookShutterValue(currentEV, exposureCompensation, iso, aperture) = Q(1, 61)
    /\ shutterSpeed = Q(1, 60)

\* C24: in the hook-based view the aperture selector is open only in mode
\* 'aperture' and the shutter selector only in mode 'shutter'
C24_SelectorOpenOnlyForHeld ==
    variant = "hookView" =>
        /\ showApertureSelector => typeFlag = "aperture"
        /\ showShutterSelector => typeFlag = "shutter"

\* C25: in the standalone view at most one of the four selector popups is
\* open in any reachable state
C25_AtMostOnePopup ==
    variant = "view" =>
        Cardinality({i \in 1..4 : selectors[i]}) <= 1

\* after a measurement a click opened the compensation popup, the only one
\* open
C25_Witness ==
    /\ variant = "view"
    /\ lastOp = "click"
    /\ isStreaming
    /\ Less(Zero, shutterSpeed)
    /\ showEvSelector
    /\ ~showApertureSelector /\ ~showShutterSelector /\ ~showIsoSelector

\* the step ends a switchCamera that was called while the camera was streaming:
\* before it a continuation of the call is pending, after it none is
SwitchCameraCompletes ==
    /\ variant = "camera"
    /\ PendingOf(pendingWatch, "switchCamera") # {}
    /\ \A c \in PendingOf(pendingWatch, "switchCamera") : c.streaming
    /\ PendingOf(pendingWatch', "switchCamera") = {}

\* C26: when the asynchronous steps of a switchCamera that was called while
\* streaming have completed, the camera is streaming again: isStreaming is true
\* and stream is non-null
C26_SwitchCameraStreamsAgain ==
    [][SwitchCameraCompletes => (isStreaming' /\ stream' # NoStream)]_vars

\* C27: once CameraPreview is unmounted and no asynchronous step is pending,
\* stream is null, every acquired track is stopped and isStreaming is false
C27_UnmountReleasesCamera ==
    (variant = "camera" /\ ~video /\ pendingWatch = {}) =>
        /\ stream = NoStream
        /\ tracks = {}
        /\ ~isStreaming

\* C28: in every reachable state of useCamera, isStreaming = true implies that
\* stream is non-null
C28_StreamingHasStream ==
    (variant = "camera" /\ isStreaming) => stream # NoStream

\* a switchCamera opened a device while a startCamera is still waiting
C28_Witness ==
    /\ variant = "camera"
    /\ lastOp = "switchCamera opened"
    /\ isStreaming
    /\ stream # NoStream
    /\ PendingOf(pendingWatch, "startCamera") # {}

\* C29: a switchCamera called while streaming opens a device whose deviceId
\* differs from the device that was active immediately before the call
C29_SwitchOpensOtherDevice ==
    (variant = "camera" /\ opened.streaming) => opened.device # opened.was

\* C30: a snap function returns an entry of its table for every input v > 0,
\* returns t for every entry t of its table, and applied to its own result
\* returns that result
C30_SnapClosedAndIdempotent ==
    variant = "snap" =>
        /\ lastOp \in {"getStandardShutterSpeed", "viewGetStandardShutterSpeed"} =>
            /\ shutterSpeed \in Range(standardShutterSpeeds)
            /\ \A t \in Range(standardShutterSpeeds) :
                   radicand = Sqr(t) => shutterSpeed = t
            /\ getStandardShutterSpeedOfRoot(Sqr(shutterSpeed)) = shutterSpeed
        /\ lastOp = "getStandardApertureValue" =>
            /\ aperture \in Range(standardApertureValues)
            /\ \A t \in Range(standardApertureValues) :
                   radicand = Sqr(t) => aperture = t
            /\ getStandardApertureValue(Sqr(aperture)) = aperture
        /\ lastOp = "getStandardAperture" =>
            /\ aperture \in Range(apertureValues)
            /\ \A t \in Range(apertureValues) :
                   radicand = Sqr(t) => aperture = t
            /\ getStandardAperture(Sqr(aperture)) = aperture

\* a value over the shutter table, 31 s, snapped to the last entry, 30 s
C30_Witness ==
    /\ variant = "snap"
    /\ lastOp = "getStandardShutterSpeed"
    /\ radicand = Sqr(Q(31, 1))
    /\ ~InShutterRangeSq(radicand)
    /\ shutterSpeed = maxShutter

====
